---- MODULE Spec2Model ----
(***************************************************************************)
(* Content-loading pipeline of the portfolio site:                         *)
(*   shared/markdown.js  parseFrontmatter, loadProjectFromMarkdown,        *)
(*                       getProjectFolders                                 *)
(*   shared/api.js       loadProjects, getProjectById, filterProjects,     *)
(*                       getFeaturedProjects, loadLinks                    *)
(* JavaScript strings are sequences of one-character strings.  Every       *)
(* async function is cut at its awaits: the part of a function that runs   *)
(* between two awaits is one atomic step of the single-threaded runtime.   *)
(***************************************************************************)
EXTENDS Integers, Sequences, FiniteSets, TLC

NULL == [t |-> "null"]

\* -------------------------------------------------------------------------
\* String primitives of the runtime
\* -------------------------------------------------------------------------
Uppers == <<"A","B","C","D","E","F","G","H","I","J","K","L","M",
            "N","O","P","Q","R","S","T","U","V","W","X","Y","Z">>

Lowers == <<"a","b","c","d","e","f","g","h","i","j","k","l","m",
            "n","o","p","q","r","s","t","u","v","w","x","y","z">>

Digits == <<"0","1","2","3","4","5","6","7","8","9">>

IsSpace(c) == c \in {" ", "\n", "\t", "\r"}

IsDigit(c) == \E i \in 1..Len(Digits) : Digits[i] = c

DigitVal(c) == (CHOOSE i \in 1..Len(Digits) : Digits[i] = c) - 1

ToLowerChar(c) ==
    IF \E i \in 1..Len(Uppers) : Uppers[i] = c
    THEN Lowers[CHOOSE i \in 1..Len(Uppers) : Uppers[i] = c]
    ELSE c

\* String.prototype.toLowerCase
ToLowerCase(s) == [i \in 1..Len(s) |-> ToLowerChar(s[i])]

\* String.prototype.substring(a, b) with 0 <= a <= b <= length, 0-based
Substring(s, a, b) == SubSeq(s, a + 1, b)

\* String.prototype.trim
Trim(s) ==
    LET keep == {i \in 1..Len(s) : ~IsSpace(s[i])}
    IN  IF keep = {} THEN <<>>
        ELSE LET lo == CHOOSE i \in keep : \A j \in keep : i <= j
                 hi == CHOOSE i \in keep : \A j \in keep : j <= i
             IN  SubSeq(s, lo, hi)

\* String.prototype.indexOf(c) for a one-character c, 0-based, -1 if absent
IndexOf(s, c) ==
    LET hits == {i \in 1..Len(s) : s[i] = c}
    IN  IF hits = {} THEN -1
        ELSE (CHOOSE i \in hits : \A j \in hits : i <= j) - 1

\* String.prototype.includes(c) for a one-character c
Includes(s, c) == \E i \in 1..Len(s) : s[i] = c

\* String.prototype.startsWith(c) for a one-character c
StartsWith(s, c) == Len(s) >= 1 /\ s[1] = c

\* String.prototype.split(c) for a one-character separator c
RECURSIVE Split(_, _)
Split(s, c) ==
    LET k == IndexOf(s, c)
    IN  IF k = -1 THEN <<s>>
        ELSE <<Substring(s, 0, k)>> \o Split(Substring(s, k + 1, Len(s)), c)

\* Array.prototype.join(c)
RECURSIVE Join(_, _)
Join(parts, c) ==
    IF Len(parts) = 0 THEN <<>>
    ELSE IF Len(parts) = 1 THEN parts[1]
    ELSE parts[1] \o <<c>> \o Join(Tail(parts), c)

IsSign(c) == c \in {"+", "-"}

\* the digits of a decimal literal, after its sign if it has one
Unsigned(s) == IF Len(s) >= 1 /\ IsSign(s[1]) THEN Tail(s) ELSE s

\* !isNaN(value) && value !== '' on a trimmed string: the value is a numeric
\* literal.  The documents of this model write numbers as decimal integers
\* with an optional sign (no fraction, exponent, radix prefix or Infinity).
IsNumeric(s) ==
    Len(Unsigned(s)) >= 1 /\ \A i \in 1..Len(Unsigned(s)) : IsDigit(Unsigned(s)[i])

RECURSIVE DigitsValue(_)
DigitsValue(s) ==
    IF Len(s) = 0 THEN 0
    ELSE 10 * DigitsValue(SubSeq(s, 1, Len(s) - 1)) + DigitVal(s[Len(s)])

\* Number(value) of a decimal integer literal
ToNumber(s) ==
    IF Len(s) >= 1 /\ s[1] = "-" THEN 0 - DigitsValue(Unsigned(s))
    ELSE DigitsValue(Unsigned(s))

\* Number.prototype.toString and ${n} of a natural number
RECURSIVE DigitsOf(_)
DigitsOf(n) ==
    IF n < 10 THEN <<Digits[n + 1]>>
    ELSE DigitsOf(n \div 10) \o <<Digits[(n % 10) + 1]>>

\* parseInt(s) of a string without leading white space or sign: the value of
\* its leading digits, NaN if it has none
ParseInt(s) ==
    LET stops == {i \in 1..Len(s) : ~IsDigit(s[i])}
        n == IF stops = {} THEN Len(s)
             ELSE (CHOOSE i \in stops : \A j \in stops : i <= j) - 1
    IN  IF n = 0 THEN [t |-> "nan"]
        ELSE [t |-> "num", v |-> DigitsValue(SubSeq(s, 1, n))]

\* -------------------------------------------------------------------------
\* JavaScript values: every value carries its type tag
\* -------------------------------------------------------------------------
UNDEFINED == [t |-> "undefined"]

BoolV(b) == [t |-> "bool", v |-> b]

NumV(n) == [t |-> "num", v |-> n]

StrV(s) == [t |-> "str", v |-> s]

ListV(l) == [t |-> "list", v |-> l]

\* ToBoolean: false, 0, '' , null and undefined are falsy, arrays are truthy
Truthy(x) ==
    CASE x.t = "bool" -> x.v
      [] x.t = "num" -> x.v # 0
      [] x.t = "str" -> x.v # <<>>
      [] x.t = "list" -> TRUE
      [] OTHER -> FALSE

\* a || b
OrElse(a, b) == IF Truthy(a) THEN a ELSE b

\* An object used as a map is the sequence of its <<key, value>> entries in
\* insertion order.  metadata[key]:
Get(m, k) ==
    IF \E i \in 1..Len(m) : m[i][1] = k
    THEN m[CHOOSE i \in 1..Len(m) : m[i][1] = k][2]
    ELSE UNDEFINED

\* metadata[key] = value
Put(m, k, v) ==
    IF \E i \in 1..Len(m) : m[i][1] = k
    THEN [i \in 1..Len(m) |-> IF m[i][1] = k THEN <<k, v>> ELSE m[i]]
    ELSE Append(m, <<k, v>>)

\* -------------------------------------------------------------------------
\* markdown.js: parseFrontmatter
\* -------------------------------------------------------------------------
DelimAt(s, i) ==
    i + 2 <= Len(s) /\ s[i] = "-" /\ s[i + 1] = "-" /\ s[i + 2] = "-"

AllSpace(s, a, b) == \A i \in a..b : IsSpace(s[i])

\* /^---\s*\n/ : the positions of the newline that can end the opening line
OpenEnds(s) ==
    IF DelimAt(s, 1)
    THEN {p \in 4..Len(s) : s[p] = "\n" /\ AllSpace(s, 4, p - 1)}
    ELSE {}

\* /\n---\s*\n/ starting at j: the positions of the newline that can end it
CloseEnds(s, j) ==
    {k \in (j + 4)..Len(s) : s[k] = "\n" /\ AllSpace(s, j + 4, k - 1)}

\* the positions after p where the closing /\n---\s*\n/ can start
CloseStarts(s, p) ==
    {j \in (p + 1)..Len(s) :
        s[j] = "\n" /\ DelimAt(s, j + 1) /\ CloseEnds(s, j) # {}}

SetMax(S) == CHOOSE x \in S : \A y \in S : y <= x

SetMin(S) == CHOOSE x \in S : \A y \in S : x <= y

\* content.match(/^---\s*\n([\s\S]*?)\n---\s*\n([\s\S]*)$/): the first \s* is
\* greedy, the first group lazy, the second \s* greedy; backtracking tries
\* them in that order
FrontmatterMatch(content) ==
    LET P == {p \in OpenEnds(content) : CloseStarts(content, p) # {}}
    IN  IF P = {} THEN NULL
        ELSE LET p == SetMax(P)
                 j == SetMin(CloseStarts(content, p))
                 k == SetMax(CloseEnds(content, j))
             IN  [t |-> "match",
                  frontmatterText |-> SubSeq(content, p + 1, j - 1),
                  body |-> SubSeq(content, k + 1, Len(content))]

STrue == <<"t","r","u","e">>

SFalse == <<"f","a","l","s","e">>

\* the coercion without its numeric branch
CoerceValueNoNumber(value) ==
    IF value = STrue THEN BoolV(TRUE)
    ELSE IF value = SFalse THEN BoolV(FALSE)
    ELSE IF Includes(value, ",")
         THEN LET parts == Split(value, ",")
              IN  ListV([i \in 1..Len(parts) |-> Trim(parts[i])])
         ELSE StrV(value)

\* the type coercion of one raw value (markdown.js 62-71)
CoerceValue(value) ==
    IF value = STrue THEN BoolV(TRUE)
    ELSE IF value = SFalse THEN BoolV(FALSE)
    ELSE IF IsNumeric(value) THEN NumV(ToNumber(value))
    ELSE IF Includes(value, ",")
         THEN LET parts == Split(value, ",")
              IN  ListV([i \in 1..Len(parts) |-> Trim(parts[i])])
         ELSE StrV(value)

\* String.prototype.lastIndexOf(c) for a one-character c, 0-based
LastIndexOf(s, c) ==
    LET hits == {i \in 1..Len(s) : s[i] = c}
    IN  IF hits = {} THEN -1
        ELSE (CHOOSE i \in hits : \A j \in hits : j <= i) - 1

\* the loop over the lines that cuts each line at its last colon
RECURSIVE ParseLinesLastColon(_, _)
ParseLinesLastColon(lines, metadata) ==
    IF Len(lines) = 0 THEN metadata
    ELSE LET line == Head(lines)
             colonIndex == LastIndexOf(line, ":")
         IN  IF Trim(line) = <<>> \/ StartsWith(Trim(line), "#")
             THEN ParseLinesLastColon(Tail(lines), metadata)
             ELSE IF colonIndex = -1
             THEN ParseLinesLastColon(Tail(lines), metadata)
             ELSE LET key == Trim(Substring(line, 0, colonIndex))
                      value == Trim(Substring(line, colonIndex + 1, Len(line)))
                  IN  ParseLinesLastColon(Tail(lines),
                                          Put(metadata, key, CoerceValue(value)))

\* the loop over the lines of the frontmatter (markdown.js 46-74)
RECURSIVE ParseLines(_, _)
ParseLines(lines, metadata) ==
    IF Len(lines) = 0 THEN metadata
    ELSE LET line == Head(lines)
             colonIndex == IndexOf(line, ":")
         IN  IF Trim(line) = <<>> \/ StartsWith(Trim(line), "#")
             THEN ParseLines(Tail(lines), metadata)
             ELSE IF colonIndex = -1
             THEN ParseLines(Tail(lines), metadata)
             ELSE LET key == Trim(Substring(line, 0, colonIndex))
                      value == Trim(Substring(line, colonIndex + 1, Len(line)))
                  IN  ParseLines(Tail(lines), Put(metadata, key, CoerceValue(value)))

\* parseFrontmatter that trims the text it returns when nothing matched
parseFrontmatterTrimAlways(content) ==
    LET match == FrontmatterMatch(content)
    IN  IF match = NULL
        THEN [metadata |-> <<>>, body |-> Trim(content)]
        ELSE [metadata |-> ParseLines(Split(match.frontmatterText, "\n"), <<>>),
              body |-> Trim(match.body)]

parseFrontmatter(content) ==
    LET match == FrontmatterMatch(content)
    IN  IF match = NULL
        THEN [metadata |-> <<>>, body |-> content]
        ELSE [metadata |-> ParseLines(Split(match.frontmatterText, "\n"), <<>>),
              body |-> Trim(match.body)]

\* -------------------------------------------------------------------------
\* markdown.js: the record of loadProjectFromMarkdown, getProjectFolders
\* -------------------------------------------------------------------------
Adbison == <<"a","d","b","i","s","o","n">>

Instaforex == <<"i","n","s","t","a","f","o","r","e","x">>

Safetyfirst == <<"s","a","f","e","t","y","f","i","r","s","t">>

getProjectFolders == <<Adbison, Instaforex, Safetyfirst>>

UntitledProject ==
    <<"U","n","t","i","t","l","e","d"," ","P","r","o","j","e","c","t">>

ProjectsDir ==
    <<"/","a","s","s","e","t","s","/","p","r","o","j","e","c","t","s","/">>

ThumbnailName == <<"/","1",".","w","e","b","p">>

\* new Date().getFullYear()
CurrentYear == 2026

KId == <<"i","d">>

KTitle == <<"t","i","t","l","e">>

KYear == <<"y","e","a","r">>

KLink == <<"l","i","n","k">>

KTags == <<"t","a","g","s">>

KFeatured == <<"f","e","a","t","u","r","e","d">>

\* the object literal with the thumbnail under the identifier of the record
BuildProjectThumbnailById(projectId, content) ==
    LET parsed == parseFrontmatter(content)
        metadata == parsed.metadata
        id == OrElse(Get(metadata, KId), StrV(projectId))
    IN  [t |-> "project",
         id |-> id,
         title |-> OrElse(Get(metadata, KTitle), StrV(UntitledProject)),
         year |-> OrElse(Get(metadata, KYear), NumV(CurrentYear)),
         link |-> OrElse(Get(metadata, KLink), StrV(<<>>)),
         tags |-> IF Get(metadata, KTags).t = "list"
                  THEN Get(metadata, KTags).v ELSE <<>>,
         featured |-> OrElse(Get(metadata, KFeatured), BoolV(FALSE)),
         description |-> parsed.body,
         thumbnail |-> ProjectsDir \o (IF id.t = "str" THEN id.v ELSE projectId)
                        \o ThumbnailName,
         images |-> <<>>]

\* the object literal with a single tag taken as a list of one tag
BuildProjectSingleTag(projectId, content) ==
    LET parsed == parseFrontmatter(content)
        metadata == parsed.metadata
    IN  [t |-> "project",
         id |-> OrElse(Get(metadata, KId), StrV(projectId)),
         title |-> OrElse(Get(metadata, KTitle), StrV(UntitledProject)),
         year |-> OrElse(Get(metadata, KYear), NumV(CurrentYear)),
         link |-> OrElse(Get(metadata, KLink), StrV(<<>>)),
         tags |-> IF Get(metadata, KTags).t = "list"
                  THEN Get(metadata, KTags).v
                  ELSE IF Get(metadata, KTags).t = "str"
                       THEN <<Get(metadata, KTags).v>> ELSE <<>>,
         featured |-> OrElse(Get(metadata, KFeatured), BoolV(FALSE)),
         description |-> parsed.body,
         thumbnail |-> ProjectsDir \o projectId \o ThumbnailName,
         images |-> <<>>]

\* the object literal returned on success (markdown.js 107-122)
BuildProject(projectId, content) ==
    LET parsed == parseFrontmatter(content)
        metadata == parsed.metadata
    IN  [t |-> "project",
         id |-> OrElse(Get(metadata, KId), StrV(projectId)),
         title |-> OrElse(Get(metadata, KTitle), StrV(UntitledProject)),
         year |-> OrElse(Get(metadata, KYear), NumV(CurrentYear)),
         link |-> OrElse(Get(metadata, KLink), StrV(<<>>)),
         tags |-> IF Get(metadata, KTags).t = "list"
                  THEN Get(metadata, KTags).v ELSE <<>>,
         featured |-> OrElse(Get(metadata, KFeatured), BoolV(FALSE)),
         description |-> parsed.body,
         thumbnail |-> ProjectsDir \o projectId \o ThumbnailName,
         images |-> <<>>]

\* -------------------------------------------------------------------------
\* The static files served to the page
\* -------------------------------------------------------------------------
\* the end-to-end example document of the specification
DocDemo ==
    <<"-","-","-","\n","i","d",":"," ","d","e","m","o","\n","t","i","t","l",
      "e",":"," ","D","e","m","o"," ","P","r","o","j","e","c","t","\n","y",
      "e","a","r",":"," ","2","0","2","4","\n","t","a","g","s",":"," ","A",
      ","," ","B","\n","f","e","a","t","u","r","e","d",":"," ","t","r","u",
      "e","\n","-","-","-","\n","B","o","d","y"," ","t","e","x","t",".">>

\* the head of the project.md of safetyfirst, body shortened
DocSafety ==
    <<"-","-","-","\n","i","d",":"," ","s","a","f","e","t","y","-","f","i",
      "r","s","t","-","w","e","b","a","p","p","\n","t","i","t","l","e",":",
      " ","S","A","F","E","T","Y"," ","F","I","R","S","T","\n","y","e","a",
      "r",":"," ","2","0","2","5","\n","t","a","g","s",":"," ","U","I","/",
      "U","X",","," ","W","e","b"," ","A","p","p","\n","f","e","a","t","u",
      "r","e","d",":"," ","t","r","u","e","\n","-","-","-","\n","\n","#",
      " ","A","p","p","\n">>

\* a document without id, with tags in lower case and a comment line
DocLower ==
    <<"-","-","-","\n","#"," ","d","r","a","f","t","\n","t","i","t","l","e",
      ":"," ","b","\n","t","a","g","s",":"," ","u","i","/","u","x",","," ",
      "a","\n","-","-","-","\n","x">>

\* a document without frontmatter
DocPlain ==
    <<"#"," ","N","o","t","e","s">>

\* the content of project.md of the three folders, in the order of
\* getProjectFolders; a site is fixed for the lifetime of the page
Sites ==
    {<<DocSafety, DocLower, DocDemo>>, <<DocDemo, DocPlain, DocDemo>>}

Folders == 1..Len(getProjectFolders)

SUi == <<"U","I","/","U","X">>

SuiLower == <<"u","i","/","u","x">>

SuiMixed == <<"U","i","/","U","x">>

SDemo == <<"d","e","m","o">>

\* the arguments the page passes to getProjectById
IdArgs == {StrV(SDemo), StrV(Instaforex), StrV(Adbison)}

\* the arguments the page passes to filterProjects ('' and no argument too)
TagArgs ==
    {StrV(SUi), StrV(SuiLower), StrV(SuiMixed), StrV(<<"A">>), StrV(<<"a">>),
     StrV(<<"w","e","b">>), StrV(<<>>), UNDEFINED}

\* the delimiter of the frontmatter
SDelimiter == <<"-","-","-">>

SBodyText == <<"B","o","d","y"," ","t","e","x","t",".">>

\* lines of which whole documents are written: the delimiter, the delimiter
\* followed by a blank, an empty line, a key with a value and a line of text
\* that starts with a blank
StructLines ==
    {SDelimiter, <<"-","-","-"," ">>, <<>>, <<"a",":"," ","1">>, <<" ","b">>}

\* documents whose first line is almost the delimiter
NearDocuments ==
    {<<"-","-","-","-","\n","a",":"," ","1","\n","-","-","-","-","\n","x">>,
     <<" ","-","-","-","\n","a",":"," ","1","\n","-","-","-","\n","x">>,
     <<"-","-","-","a",":"," ","1","\n","-","-","-","\n","x">>}

\* lines of a metadata section: the recognised keys with values of every
\* type, comments, blank lines, lines without colon
EntryLines ==
    {<<"i","d",":"," ","d","e","m","o">>,
     <<"i","d",":"," ","7">>,
     <<"i","d",":">>,
     <<"t","i","t","l","e",":"," ","D","e","m","o"," ","P","r","o","j","e",
       "c","t">>,
     <<"t","i","t","l","e",":"," ","t","r","u","e">>,
     <<"y","e","a","r",":"," ","2","0","2","4">>,
     <<"y","e","a","r",":"," ","s","o","o","n">>,
     <<"y","e","a","r",":"," ","0">>,
     <<"y","e","a","r",":"," ","-","1">>,
     <<"l","i","n","k",":"," ","h","t","t","p",":","/","/","a",".","b">>,
     <<"t","a","g","s",":"," ","A",","," ","B">>,
     <<"t","a","g","s",":"," ","A">>,
     <<"t","a","g","s",":"," ","1",",","2">>,
     <<"f","e","a","t","u","r","e","d",":"," ","t","r","u","e">>,
     <<"f","e","a","t","u","r","e","d",":"," ","y","e","s">>,
     <<"f","e","a","t","u","r","e","d",":"," ","f","a","l","s","e">>,
     <<"#"," ","n","o","t","e">>,
     <<"#"," ","i","d",":"," ","9">>,
     <<" "," ">>,
     <<"n","o"," ","c","o","l","o","n">>,
     <<" ","i","d"," ",":"," ","x"," ">>,
     <<":"," ","v">>,
     <<"k",":"," ",",">>}

\* the documents of at most n lines over a set of lines
Documents(lineSet, n) ==
    UNION {{Join(ls, "\n") : ls \in [1..k -> lineSet]} : k \in 1..n}

\* the documents with a frontmatter of at most n lines of a set, and a body
Framed(lineSet, n) ==
    UNION {{Join(<<SDelimiter>> \o ls \o <<SDelimiter, SBodyText>>, "\n") :
                ls \in [1..k -> lineSet]} : k \in 1..n}

\* the parsed bodies /data/links.json can have
LinkBodies == {"social", "nosocial"}

\* -------------------------------------------------------------------------
\* Bounds of the model
\* -------------------------------------------------------------------------
\* calls of the exported functions that are in flight at the same time
MaxInFlight == 2

\* fetches of /data/links.json in one run
MaxLinkFetches == 2

\* lines of a document written freely over StructLines
MaxLines == 5

\* lines of the metadata section of a document written over EntryLines
MaxEntries == 2

\* the contents response.text() can resolve to
Contents ==
    Documents(StructLines, MaxLines) \cup Framed(EntryLines, MaxEntries)
        \cup NearDocuments \cup {DocDemo, DocSafety, DocLower, DocPlain}

\* -------------------------------------------------------------------------
\* State
\* -------------------------------------------------------------------------
VARIABLES
    site,            \* the project.md served for each folder
    cachedProjects,  \* api.js: let cachedProjects
    cachedLinks,     \* api.js: let cachedLinks
    calls,           \* the calls of loadProjects and loadLinks in flight
    settled,         \* the call of an exported function that has just settled,
                     \* until the continuation of its caller has run
    fetchCount,      \* fetches of project.md issued so far, per folder
    linkFetches,     \* fetches of /data/links.json issued so far
    firstRef,        \* identity of the catalog that the first loadProjects to
                     \* resolve returned (0: none has resolved)
    firstLinkRef,    \* identity of the document that the first loadLinks to
                     \* resolve returned (0: none has resolved)
    firstFailed,     \* the folders whose load failed in the first build that
                     \* completed
    parseResult,     \* what a call of parseFrontmatter(content) returned
    loadResult,      \* what a call of loadProjectFromMarkdown returned after
                     \* a successful fetch
    imageSets,       \* the numbers n for which {folder}/{n}.webp exists
    opens,           \* the calls of openProjectModal in flight
    microtasks,      \* the calls whose getProjectImages has returned, in the
                     \* order in which their continuations will run
    userCode,        \* the task that filled the microtask queue is code of
                     \* the page, which may go on calling the modal
    gallery,         \* what #modal-gallery holds
    modalVisible,    \* #project-modal has the class project-modal--visible
    bodyStyle,       \* document.body.style
    scrollY,         \* window.scrollY
    savedScrollY,    \* modal.dataset.scrollY
    beforeOpen,      \* window.scrollY just before the modal became visible
    lastProbed,      \* project id and images of the call whose
                     \* getProjectImages returned last
    clock,           \* the time, in timer ticks
    timeout,         \* debounce: the pending timer of let timeout
    history          \* debounce: the calls of the wrapper and the
                     \* executions of func so far

apiVars ==
    <<site, cachedProjects, cachedLinks, calls, settled, fetchCount,
      linkFetches, firstRef, firstLinkRef, firstFailed, parseResult,
      loadResult>>

modalVars ==
    <<imageSets, opens, microtasks, userCode, gallery, modalVisible,
      bodyStyle, scrollY, savedScrollY, beforeOpen, lastProbed>>

debounceVars == <<clock, timeout, history>>

uiVars == <<modalVars, debounceVars>>

vars == <<apiVars, uiVars>>

\* -------------------------------------------------------------------------
\* Promises
\* -------------------------------------------------------------------------
Pending == [status |-> "pending", value |-> NULL]

Resolved(v) == [status |-> "resolved", value |-> v]

Rejected == [status |-> "rejected", value |-> [t |-> "error"]]

\* -------------------------------------------------------------------------
\* markdown.js: loadProjectFromMarkdown, cut at its two awaits
\* -------------------------------------------------------------------------
\* loadProjectFromMarkdown without its try/catch: the fault reaches the caller
LoaderCatchRethrow(projectId) == Rejected

\* catch (error) { console.error(...); return null; }
LoaderCatch(projectId) == Resolved(NULL)

\* const response = await fetch(url); if (!response.ok) return null;
\* response is "ok", "notok" or "reject" (the fetch promise rejected)
LoaderAfterFetch(projectId, response) ==
    CASE response = "reject" -> LoaderCatch(projectId)
      [] response = "notok" -> Resolved(NULL)
      [] OTHER -> Pending

\* const content = await response.text(); ... return {...};
\* text.ok is FALSE when reading the body rejected
LoaderAfterText(projectId, text) ==
    IF text.ok
    THEN Resolved(BuildProject(projectId, text.content))
    ELSE LoaderCatch(projectId)

\* one call of loadProjectFromMarkdown: the await it stands at ("fetching",
\* "reading" or "done") and its promise
Loader(at, promise) ==
    [at |-> at, status |-> promise.status, value |-> promise.value]

\* the call after its fetch has settled with response
LoaderFetched(projectId, response) ==
    LET promise == LoaderAfterFetch(projectId, response)
    IN  Loader(IF promise.status = "pending" THEN "reading" ELSE "done", promise)

\* the call after response.text() has settled with text
LoaderRead(projectId, text) == Loader("done", LoaderAfterText(projectId, text))

\* -------------------------------------------------------------------------
\* api.js: loadProjects after await Promise.all(projectPromises)
\* -------------------------------------------------------------------------
\* Promise.all: rejects as soon as one promise rejects, resolves to the
\* values in the order of the array once all have resolved
PromiseAll(loads) ==
    IF \E i \in 1..Len(loads) : loads[i].status = "rejected" THEN Rejected
    ELSE IF \A i \in 1..Len(loads) : loads[i].status = "resolved"
         THEN Resolved([i \in 1..Len(loads) |-> loads[i].value])
         ELSE Pending

\* loadProjects without the filter of the null results
ValidProjectsKeepNull(projects) == projects

NotNull(p) == p # NULL

\* projects.filter(p => p !== null)
ValidProjects(projects) == SelectSeq(projects, NotNull)

\* const data = { projects: validProjects, metadata: {...} }
BuildData(validProjects, ref) ==
    [t |-> "catalog", ref |-> ref, projects |-> validProjects,
     metadata |-> {<<"version", "2.0.0">>, <<"source", "markdown">>}]

\* catch (error) { return { projects: [], metadata: {} }; }
LoadProjectsCatch(ref) ==
    [ret |-> Resolved([t |-> "catalog", ref |-> ref, projects |-> <<>>,
                       metadata |-> {}]),
     store |-> FALSE]

\* loadProjects that throws when no project is left, and has no try/catch
LoadProjectsResumeThrowOnEmpty(all, ref) ==
    IF all.status = "resolved" /\ ValidProjects(all.value) # <<>>
    THEN [ret |-> Resolved(BuildData(ValidProjects(all.value), ref)),
          store |-> TRUE]
    ELSE [ret |-> Rejected, store |-> FALSE]

\* the rest of loadProjects once Promise.all has settled with `all`:
\* what it returns and whether it assigns the returned object to the cache
LoadProjectsResume(all, ref) ==
    IF all.status = "resolved"
    THEN [ret |-> Resolved(BuildData(ValidProjects(all.value), ref)),
          store |-> TRUE]
    ELSE LoadProjectsCatch(ref)

\* -------------------------------------------------------------------------
\* api.js: the queries after await loadProjects()
\* -------------------------------------------------------------------------
\* getProjectById that keeps the last record with the identifier
getProjectByIdResultLast(data, id) ==
    LET hits == {i \in 1..Len(data.projects) : data.projects[i].id = id}
    IN  IF hits = {} THEN NULL
        ELSE data.projects[CHOOSE i \in hits : \A j \in hits : j <= i]

\* data.projects.find(project => project.id === id) || null
getProjectByIdResult(data, id) ==
    LET hits == {i \in 1..Len(data.projects) : data.projects[i].id = id}
    IN  IF hits = {} THEN NULL ELSE data.projects[SetMin(hits)]

\* the comparison with only the argument put in lower case
TagMatchesArgOnly(t, tag) == t = ToLowerCase(tag)

\* t.toLowerCase() === tag.toLowerCase()
TagMatches(t, tag) == ToLowerCase(t) = ToLowerCase(tag)

\* project.tags.some(t => t.toLowerCase() === tag.toLowerCase())
HasTag(project, tag) ==
    \E i \in 1..Len(project.tags) : TagMatches(project.tags[i], tag)

\* filterProjects without the early return for an empty or absent tag
filterProjectsResultAlwaysFilter(data, tag) ==
    LET Keep(project) == HasTag(project, IF tag.t = "str" THEN tag.v ELSE <<>>)
    IN  SelectSeq(data.projects, Keep)

\* if (!tag) return data.projects; return data.projects.filter(...)
filterProjectsResult(data, tag) ==
    IF ~Truthy(tag) THEN data.projects
    ELSE LET Keep(project) == HasTag(project, tag.v)
         IN  SelectSeq(data.projects, Keep)

\* getFeaturedProjects without its filter
getFeaturedProjectsResultAll(data) == data.projects

IsFeatured(project) == Truthy(project.featured)

\* data.projects.filter(project => project.featured)
getFeaturedProjectsResult(data) == SelectSeq(data.projects, IsFeatured)

\* what the caller of loadProjects() does with data: the page keeps it, a
\* query runs to its end
CallerResult(op, data, arg) ==
    CASE op = "getProjectById" -> getProjectByIdResult(data, arg)
      [] op = "filterProjects" -> filterProjectsResult(data, arg)
      [] op = "getFeaturedProjects" -> getFeaturedProjectsResult(data)
      [] OTHER -> data

\* -------------------------------------------------------------------------
\* api.js: loadLinks, cut at its two awaits
\* -------------------------------------------------------------------------
\* a link document: its identity and the entries of its categories
LinkDocument(ref, body) ==
    [t |-> "links", ref |-> ref,
     keys |-> IF body = "social" THEN {"social", "contact", "metadata"}
              ELSE IF body = "nosocial" THEN {"contact"}
              ELSE {"social", "metadata"},
     social |-> IF body = "social" THEN {"behance", "telegram"} ELSE {}]

\* loadLinks without its try/catch
LoadLinksCatchRethrow(ref) == [ret |-> Rejected, store |-> FALSE]

\* loadLinks with a catch block that returns {}
LoadLinksCatchBare(ref) ==
    [ret |-> Resolved([t |-> "links", ref |-> ref, keys |-> {}, social |-> {}]),
     store |-> FALSE]

\* loadLinks that stores the fallback document in the cache
LoadLinksCatchMemoized(ref) ==
    [ret |-> Resolved(LinkDocument(ref, "empty")), store |-> TRUE]

\* catch (error) { return { social: {}, metadata: {} }; }
LoadLinksCatch(ref) ==
    [ret |-> Resolved(LinkDocument(ref, "empty")), store |-> FALSE]

\* const response = await fetch(LINKS_URL);
\* if (!response.ok) throw new Error(...);
LoadLinksAfterFetch(response, ref) ==
    CASE response = "reject" -> LoadLinksCatch(ref)
      [] response = "notok" -> LoadLinksCatch(ref)
      [] OTHER -> [ret |-> Pending, store |-> FALSE]

\* const data = await response.json(); cachedLinks = data; return data;
\* json.ok is FALSE when the body does not parse
LoadLinksAfterJson(json, ref) ==
    IF json.ok
    THEN [ret |-> Resolved(LinkDocument(ref, json.body)), store |-> TRUE]
    ELSE LoadLinksCatch(ref)

\* -------------------------------------------------------------------------
\* modal.js: getProjectImages and checkImageExists, cut at the await
\* -------------------------------------------------------------------------
SAdbisonWebsite ==
    <<"a","d","b","i","s","o","n","-","w","e","b","s","i","t","e">>

SInstaforexSearch ==
    <<"i","n","s","t","a","f","o","r","e","x","-","s","e","a","r","c","h">>

SSafetyFirstWebapp ==
    <<"s","a","f","e","t","y","-","f","i","r","s","t","-","w","e","b","a",
      "p","p">>

\* a key that every object literal inherits from Object.prototype
SConstructor ==
    <<"c","o","n","s","t","r","u","c","t","o","r">>

\* String(Object), the text of the inherited value in a template literal
SObjectFunction ==
    <<"f","u","n","c","t","i","o","n"," ","O","b","j","e","c","t","(",")",
      " ","{"," ","[","n","a","t","i","v","e"," ","c","o","d","e","]"," ",
      "}">>

FunctionV(text) == [t |-> "function", v |-> text]

\* projectFolderMap[projectId]: the value of the own key, the inherited
\* value for a key of Object.prototype, undefined otherwise
projectFolderMap(projectId) ==
    CASE projectId = SAdbisonWebsite -> StrV(Adbison)
      [] projectId = SInstaforexSearch -> StrV(Instaforex)
      [] projectId = SSafetyFirstWebapp -> StrV(Safetyfirst)
      [] projectId = SConstructor -> FunctionV(SObjectFunction)
      [] OTHER -> UNDEFINED

\* const maxImages = 50
maxImages == 50

AssetsDir ==
    <<"a","s","s","e","t","s","/","p","r","o","j","e","c","t","s","/">>

\* `assets/projects/${folder}/${index}.webp`
ImagePath(folderValue, index) ==
    AssetsDir \o folderValue.v \o <<"/">> \o DigitsOf(index)
        \o <<".","w","e","b","p">>

\* the answers of fetch(url, {method: 'HEAD'}): a response that is ok only
\* for a file that exists, a response that is not ok, a rejection
HeadResponses(exists) ==
    IF exists THEN {"ok", "notok", "reject"} ELSE {"notok", "reject"}

\* checkImageExists: response.ok, and false when the fetch rejects
checkImageExists(response) == response = "ok"

\* one call of openProjectModal: pc is "idle", "probing" (getProjectImages
\* waits for an existence check) or "ready" (getProjectImages has returned,
\* the continuation of openProjectModal has not run); checks counts the
\* existence checks issued
OpenCall(pc, projectId, folderValue, index, images, checks) ==
    [pc |-> pc, projectId |-> projectId, folder |-> folderValue,
     index |-> index, images |-> images, checks |-> checks]

NoOpen == OpenCall("idle", <<>>, UNDEFINED, 0, <<>>, 0)

\* calls of openProjectModal that may overlap
MaxOpens == 2

OpenSlots == 1..MaxOpens

\* getProjectImages(projectId) up to its first await
GetImagesStart(projectId) ==
    LET folderValue == projectFolderMap(projectId)
    IN  IF folderValue = UNDEFINED
        THEN OpenCall("ready", projectId, folderValue, 0, <<>>, 0)
        ELSE IF 1 <= maxImages
             THEN OpenCall("probing", projectId, folderValue, 1, <<>>, 1)
             ELSE OpenCall("ready", projectId, folderValue, 1, <<>>, 0)

\* getProjectImages after one existence check has answered
GetImagesAfterCheck(call, exists) ==
    IF ~exists
    THEN [call EXCEPT !.pc = "ready"]
    ELSE LET images == Append(call.images, ImagePath(call.folder, call.index))
             index == call.index + 1
         IN  IF index <= maxImages
             THEN [call EXCEPT !.images = images, !.index = index,
                               !.checks = call.checks + 1]
             ELSE [call EXCEPT !.pc = "ready", !.images = images,
                               !.index = index]

\* -------------------------------------------------------------------------
\* modal.js: the gallery and the body
\* -------------------------------------------------------------------------
\* gallery.innerHTML = ''
GalleryEmpty == [kind |-> "empty", items |-> <<>>]

\* the loading text
GalleryLoading == [kind |-> "loading", items |-> <<>>]

\* the text for a project without images
GalleryNoImages == [kind |-> "noimages", items |-> <<>>]

\* images.forEach appends one wrapper per image to what the gallery holds
GalleryAppend(g, images) ==
    IF images = <<>> THEN g
    ELSE [kind |-> "images", items |-> g.items \o images]

\* a continuation that renders without clearing the gallery first
RenderGalleryKeeping(g, images) == GalleryAppend(g, images)

\* openProjectModal after the await: clear, message if empty, render
RenderGallery(g, images) ==
    GalleryAppend(IF images = <<>> THEN GalleryNoImages ELSE GalleryEmpty,
                  images)

\* document.body.style after closeProjectModal, and before any open
BodyFree == [position |-> <<>>, top |-> <<>>, overflow |-> <<>>]

SFixed == <<"f","i","x","e","d">>

SHidden == <<"h","i","d","d","e","n">>

\* document.body.style after the lock of openProjectModal
BodyFixed(scroll) ==
    [position |-> SFixed, top |-> <<"-">> \o DigitsOf(scroll) \o <<"p","x">>,
     overflow |-> SHidden]

\* parseInt(modal.dataset.scrollY || '0'); scrollTo takes NaN as 0
SavedPosition(saved) ==
    LET n == ParseInt(IF saved = UNDEFINED \/ saved.v = <<>> THEN <<"0">>
                      ELSE saved.v)
    IN  IF n.t = "nan" THEN 0 ELSE n.v

\* the modal before any call, on a page that is not scrolled
ModalIdle ==
    /\ imageSets = [f \in Folders |-> {}]
    /\ opens = [o \in OpenSlots |-> NoOpen]
    /\ microtasks = <<>>
    /\ userCode = FALSE
    /\ gallery = GalleryEmpty
    /\ modalVisible = FALSE
    /\ bodyStyle = BodyFree
    /\ scrollY = 0
    /\ savedScrollY = UNDEFINED
    /\ beforeOpen = 0
    /\ lastProbed = NULL

\* no debounced function has been called
DebounceIdle ==
    /\ clock = 0
    /\ timeout = NULL
    /\ history = <<>>

\* -------------------------------------------------------------------------
\* Calls in flight and the call that has just settled
\* -------------------------------------------------------------------------
Slots == 1..MaxInFlight

\* who calls loadProjects(): the page itself or one of the three queries, as
\* their first statement
CatalogOps ==
    {"loadProjects", "getProjectById", "filterProjects", "getFeaturedProjects"}

\* A query does nothing but await loadProjects() before its continuation, so
\* which query the caller is, and its argument, are drawn when it resumes.
ArgsOf(op) ==
    CASE op = "getProjectById" -> IdArgs
      [] op = "filterProjects" -> TagArgs
      [] OTHER -> {UNDEFINED}

\* pc: "idle", "building" (loadProjects waits for Promise.all), "awaiting"
\* (loadProjects has settled to inner, its caller has not resumed), "lfetch"
\* and "ljson" (loadLinks waits for fetch, for response.json());
\* n: the number of the build or fetch the call started (0: none)
Call(pc, n, loads, inner, after) ==
    [pc |-> pc, n |-> n, loads |-> loads, inner |-> inner, after |-> after]

Idle == Call("idle", 0, <<>>, Pending, FALSE)

\* promise: what the call settled to; data: the catalog a query worked on;
\* loads: the loader calls of the build the call made; n: the number of the
\* build or fetch the call started; after: the call was made after a call of
\* the same accessor had resolved; outcome: how the fetch of the call went
Completed(op, arg, promise, data, loads, n, after, outcome) ==
    [op |-> op, arg |-> arg, status |-> promise.status,
     result |-> promise.value, data |-> data, loads |-> loads,
     n |-> n, after |-> after, outcome |-> outcome]

NoCall == Completed("none", UNDEFINED, Pending, NULL, <<>>, 0, FALSE, "none")

\* a new call takes the lowest free slot
FreeSlot(c) ==
    /\ calls[c].pc = "idle"
    /\ \A d \in Slots : d < c => calls[d].pc # "idle"

Init ==
    /\ site \in Sites
    /\ cachedProjects = NULL
    /\ cachedLinks = NULL
    /\ calls = [c \in Slots |-> Idle]
    /\ settled = NoCall
    /\ fetchCount = [f \in Folders |-> 0]
    /\ linkFetches = 0
    /\ firstRef = 0
    /\ firstLinkRef = 0
    /\ firstFailed = {}
    /\ parseResult = NULL
    /\ loadResult = NULL
    /\ ModalIdle
    /\ DebounceIdle

\* The reaction of the caller to a settled promise is a microtask: it runs
\* before the next network event and before the next call.
Deliver ==
    /\ settled # NoCall
    /\ settled' = NoCall
    /\ UNCHANGED <<parseResult, loadResult, firstFailed>>
    /\ UNCHANGED uiVars
    /\ UNCHANGED <<site, cachedProjects, cachedLinks, calls, fetchCount,
                   linkFetches, firstRef, firstLinkRef>>

\* -------------------------------------------------------------------------
\* Actions of the catalog
\* -------------------------------------------------------------------------
\* loadProjects that awaits each loader call before it makes the next: only
\* the fetch of the first folder is issued in the step of the call
CallCatalogOneByOne(c) ==
    /\ settled = NoCall
    /\ FreeSlot(c)
    /\ cachedProjects = NULL
    /\ calls' = [calls EXCEPT ![c] =
            Call("building", fetchCount[1] + 1,
                 [f \in Folders |-> Loader("fetching", Pending)],
                 Pending, firstRef # 0)]
    /\ fetchCount' = [fetchCount EXCEPT ![1] = fetchCount[1] + 1]
    /\ UNCHANGED <<parseResult, loadResult, firstFailed>>
    /\ UNCHANGED uiVars
    /\ UNCHANGED <<site, cachedProjects, cachedLinks, settled, linkFetches,
                   firstRef, firstLinkRef>>

\* A call of loadProjects() up to its first await.  With the cache empty,
\* projectFolders.map(...) runs every loadProjectFromMarkdown up to its
\* await fetch(url): all fetches are issued in this step.
CallCatalog(c) ==
    /\ settled = NoCall
    /\ FreeSlot(c)
    /\ IF cachedProjects # NULL
       THEN /\ calls' = [calls EXCEPT ![c] =
                    Call("awaiting", 0, <<>>, Resolved(cachedProjects),
                         firstRef # 0)]
            /\ fetchCount' = fetchCount
       ELSE /\ calls' = [calls EXCEPT ![c] =
                    Call("building", fetchCount[1] + 1,
                         [f \in Folders |-> Loader("fetching", Pending)],
                         Pending, firstRef # 0)]
            /\ fetchCount' = [f \in Folders |-> fetchCount[f] + 1]
    /\ UNCHANGED <<parseResult, loadResult, firstFailed>>
    /\ UNCHANGED uiVars
    /\ UNCHANGED <<site, cachedProjects, cachedLinks, settled, linkFetches,
                   firstRef, firstLinkRef>>

\* a loader call whose promise has settled, as its caller sees it
LoaderSettled(f, loader, outcome) ==
    IF loader.status = "pending" THEN NoCall
    ELSE Completed("loadProjectFromMarkdown", StrV(getProjectFolders[f]),
                   loader, NULL, <<>>, 0, FALSE, outcome)

\* the fetch of one project.md settles
FetchSettle(c, f, response) ==
    /\ settled = NoCall
    /\ calls[c].pc = "building"
    /\ calls[c].loads[f].at = "fetching"
    /\ LET loader == LoaderFetched(getProjectFolders[f], response)
       IN  /\ calls' = [calls EXCEPT ![c].loads[f] = loader]
           /\ settled' = LoaderSettled(f, loader, response)
    /\ UNCHANGED <<parseResult, loadResult, firstFailed>>
    /\ UNCHANGED uiVars
    /\ UNCHANGED <<site, cachedProjects, cachedLinks, fetchCount, linkFetches,
                   firstRef, firstLinkRef>>

\* response.text() of one project.md settles
TextSettle(c, f, ok) ==
    /\ settled = NoCall
    /\ calls[c].pc = "building"
    /\ calls[c].loads[f].at = "reading"
    /\ LET loader == LoaderRead(getProjectFolders[f],
                                [ok |-> ok, content |-> site[f]])
       IN  /\ calls' = [calls EXCEPT ![c].loads[f] = loader]
           /\ settled' = LoaderSettled(f, loader, IF ok THEN "text" ELSE "textreject")
    /\ UNCHANGED <<parseResult, loadResult, firstFailed>>
    /\ UNCHANGED uiVars
    /\ UNCHANGED <<site, cachedProjects, cachedLinks, fetchCount, linkFetches,
                   firstRef, firstLinkRef>>

\* Promise.all has settled: loadProjects runs to its end
BuildSettle(c) ==
    /\ settled = NoCall
    /\ calls[c].pc = "building"
    /\ PromiseAll(calls[c].loads).status # "pending"
    /\ LET out == LoadProjectsResume(PromiseAll(calls[c].loads), calls[c].n)
       IN  /\ cachedProjects' = IF out.store THEN out.ret.value ELSE cachedProjects
           /\ firstRef' = IF firstRef = 0 /\ out.ret.status = "resolved"
                          THEN out.ret.value.ref ELSE firstRef
           /\ firstFailed' = IF firstRef = 0 /\ out.ret.status = "resolved"
                             THEN {f \in Folders : calls[c].loads[f].value = NULL}
                             ELSE firstFailed
           /\ calls' = [calls EXCEPT ![c].pc = "awaiting", ![c].inner = out.ret]
    /\ UNCHANGED <<parseResult, loadResult>>
    /\ UNCHANGED uiVars
    /\ UNCHANGED <<site, cachedLinks, settled, fetchCount, linkFetches,
                   firstLinkRef>>

\* a query that empties the cache slot when it has run
ResumeDroppingCache(c, op, arg) ==
    /\ settled = NoCall
    /\ calls[c].pc = "awaiting"
    /\ arg \in ArgsOf(op)
    /\ settled' = Completed(op, arg,
                            IF calls[c].inner.status = "resolved"
                            THEN Resolved(CallerResult(op, calls[c].inner.value, arg))
                            ELSE Rejected,
                            calls[c].inner.value, calls[c].loads, calls[c].n,
                            calls[c].after, "none")
    /\ calls' = [calls EXCEPT ![c] = Idle]
    /\ cachedProjects' = IF op = "loadProjects" THEN cachedProjects ELSE NULL
    /\ UNCHANGED <<parseResult, loadResult, firstFailed>>
    /\ UNCHANGED uiVars
    /\ UNCHANGED <<site, cachedLinks, fetchCount, linkFetches,
                   firstRef, firstLinkRef>>

\* the caller of loadProjects() resumes: the page has its catalog, a query
\* runs to its end
Resume(c, op, arg) ==
    /\ settled = NoCall
    /\ calls[c].pc = "awaiting"
    /\ arg \in ArgsOf(op)
    /\ settled' = Completed(op, arg,
                            IF calls[c].inner.status = "resolved"
                            THEN Resolved(CallerResult(op, calls[c].inner.value, arg))
                            ELSE Rejected,
                            calls[c].inner.value, calls[c].loads, calls[c].n,
                            calls[c].after, "none")
    /\ calls' = [calls EXCEPT ![c] = Idle]
    /\ UNCHANGED <<parseResult, loadResult, firstFailed>>
    /\ UNCHANGED uiVars
    /\ UNCHANGED <<site, cachedProjects, cachedLinks, fetchCount, linkFetches,
                   firstRef, firstLinkRef>>

\* -------------------------------------------------------------------------
\* Actions of the link store
\* -------------------------------------------------------------------------
\* the end of a loadLinks call that settles with out
LinksDone(c, out, outcome) ==
    /\ cachedLinks' = IF out.store THEN out.ret.value ELSE cachedLinks
    /\ firstLinkRef' = IF firstLinkRef = 0 /\ out.ret.status = "resolved"
                       THEN out.ret.value.ref ELSE firstLinkRef
    /\ settled' = Completed("loadLinks", UNDEFINED, out.ret, NULL, <<>>,
                            calls[c].n, calls[c].after, outcome)
    /\ calls' = [calls EXCEPT ![c] = Idle]

\* a call of loadLinks up to its first await
CallLinks(c) ==
    /\ settled = NoCall
    /\ FreeSlot(c)
    /\ cachedLinks # NULL \/ linkFetches < MaxLinkFetches
    /\ IF cachedLinks # NULL
       THEN /\ settled' = Completed("loadLinks", UNDEFINED,
                                    Resolved(cachedLinks), NULL, <<>>, 0,
                                    firstLinkRef # 0, "cached")
            /\ UNCHANGED <<calls, linkFetches>>
       ELSE /\ calls' = [calls EXCEPT ![c] =
                    Call("lfetch", linkFetches + 1, <<>>, Pending,
                         firstLinkRef # 0)]
            /\ linkFetches' = linkFetches + 1
            /\ settled' = settled
    /\ UNCHANGED <<parseResult, loadResult, firstFailed>>
    /\ UNCHANGED uiVars
    /\ UNCHANGED <<site, cachedProjects, cachedLinks, fetchCount, firstRef,
                   firstLinkRef>>

\* the fetch of /data/links.json settles
LinksFetchSettle(c, response) ==
    /\ settled = NoCall
    /\ calls[c].pc = "lfetch"
    /\ LET out == LoadLinksAfterFetch(response, calls[c].n)
       IN  IF out.ret.status = "pending"
           THEN /\ calls' = [calls EXCEPT ![c].pc = "ljson"]
                /\ UNCHANGED <<cachedLinks, settled, firstLinkRef>>
           ELSE LinksDone(c, out, response)
    /\ UNCHANGED <<parseResult, loadResult, firstFailed>>
    /\ UNCHANGED uiVars
    /\ UNCHANGED <<site, cachedProjects, fetchCount, linkFetches, firstRef>>

\* response.json() settles
LinksJsonSettle(c, json) ==
    /\ settled = NoCall
    /\ calls[c].pc = "ljson"
    /\ LinksDone(c, LoadLinksAfterJson(json, calls[c].n),
                 IF json.ok THEN "json" ELSE "jsonreject")
    /\ UNCHANGED <<parseResult, loadResult, firstFailed>>
    /\ UNCHANGED uiVars
    /\ UNCHANGED <<site, cachedProjects, fetchCount, linkFetches, firstRef>>

Responses == {"ok", "notok", "reject"}

JsonResults ==
    {[ok |-> TRUE, body |-> b] : b \in LinkBodies}
        \cup {[ok |-> FALSE, body |-> "none"]}

NextCatalog ==
    \/ \E c \in Slots : CallCatalog(c)
    \/ \E c \in Slots, f \in Folders, r \in Responses : FetchSettle(c, f, r)
    \/ \E c \in Slots, f \in Folders, ok \in BOOLEAN : TextSettle(c, f, ok)
    \/ \E c \in Slots : BuildSettle(c)
    \/ \E c \in Slots, op \in CatalogOps, arg \in IdArgs \cup TagArgs \cup {UNDEFINED} :
            Resume(c, op, arg)

NextLinks ==
    \/ \E c \in Slots : CallLinks(c)
    \/ \E c \in Slots, r \in Responses : LinksFetchSettle(c, r)
    \/ \E c \in Slots, j \in JsonResults : LinksJsonSettle(c, j)

CatalogBusy == \E c \in Slots : calls[c].pc \in {"building", "awaiting"}

LinksBusy == \E c \in Slots : calls[c].pc \in {"lfetch", "ljson"}

\* The page as initLanding and initProject drive it: a call of an accessor is
\* awaited before the accessor is called again, while calls of the catalog
\* and of the link store overlap.
Next ==
    \/ \E c \in Slots : ~CatalogBusy /\ CallCatalog(c)
    \/ \E c \in Slots, f \in Folders, r \in Responses : FetchSettle(c, f, r)
    \/ \E c \in Slots, f \in Folders, ok \in BOOLEAN : TextSettle(c, f, ok)
    \/ \E c \in Slots : BuildSettle(c)
    \/ \E c \in Slots, op \in CatalogOps, arg \in IdArgs \cup TagArgs \cup {UNDEFINED} :
            Resume(c, op, arg)
    \/ \E c \in Slots : ~LinksBusy /\ CallLinks(c)
    \/ \E c \in Slots, r \in Responses : LinksFetchSettle(c, r)
    \/ \E c \in Slots, j \in JsonResults : LinksJsonSettle(c, j)
    \/ Deliver

Spec == Init /\ [][Next]_vars

\* any callers of the catalog: calls of loadProjects() overlap freely
SpecCatalog == Init /\ [][NextCatalog \/ Deliver]_vars

\* any callers of the link store: calls of loadLinks() overlap freely
SpecLinks == Init /\ [][NextLinks \/ Deliver]_vars

\* -------------------------------------------------------------------------
\* markdown.js on its own: one document, parsed or loaded
\* -------------------------------------------------------------------------
\* the text of the project.md that every folder serves
Content == site[1]

InitParser ==
    /\ \E content \in Contents : site = [f \in Folders |-> content]
    /\ cachedProjects = NULL
    /\ cachedLinks = NULL
    /\ calls = [c \in Slots |-> Idle]
    /\ settled = NoCall
    /\ fetchCount = [f \in Folders |-> 0]
    /\ linkFetches = 0
    /\ firstRef = 0
    /\ firstLinkRef = 0
    /\ firstFailed = {}
    /\ parseResult = NULL
    /\ loadResult = NULL
    /\ ModalIdle
    /\ DebounceIdle

\* parseFrontmatter(content)
ParseContent ==
    /\ parseResult = NULL
    /\ loadResult = NULL
    /\ parseResult' = parseFrontmatter(Content)
    /\ UNCHANGED uiVars
    /\ UNCHANGED <<loadResult, site, cachedProjects, cachedLinks, calls, settled,
                   fetchCount, linkFetches, firstRef, firstLinkRef, firstFailed>>

\* loadProjectFromMarkdown(projectId) when the fetch and the read succeed
LoadContent(f) ==
    /\ parseResult = NULL
    /\ loadResult = NULL
    /\ loadResult' = BuildProject(getProjectFolders[f], site[f])
    /\ UNCHANGED uiVars
    /\ UNCHANGED <<parseResult, site, cachedProjects, cachedLinks, calls, settled,
                   fetchCount, linkFetches, firstRef, firstLinkRef, firstFailed>>

NextParser ==
    \/ ParseContent
    \/ \E f \in Folders : LoadContent(f)

SpecParser == InitParser /\ [][NextParser]_vars

\* -------------------------------------------------------------------------
\* modal.js: the modal, one action per callback
\* -------------------------------------------------------------------------
\* the largest scroll position of the page
MaxScroll == 1

\* the largest number of an image a folder holds
MaxImage == 1

\* the project ids the page passes to openProjectModal; "demo" is no key
\* of projectFolderMap
ProjectIds ==
    {SAdbisonWebsite, SInstaforexSearch, SDemo, SConstructor}

\* the file {folder}/{index}.webp exists
ImageExists(folderValue, index) ==
    \E f \in Folders :
        /\ folderValue = StrV(getProjectFolders[f])
        /\ index \in imageSets[f]

\* what the scroll-lock code reads and writes
Page ==
    [modalVisible |-> modalVisible, bodyStyle |-> bodyStyle,
     scrollY |-> scrollY]

SetPage(p) ==
    /\ modalVisible' = p.modalVisible
    /\ bodyStyle' = p.bodyStyle
    /\ scrollY' = p.scrollY

\* a closeProjectModal that hides the modal and leaves the body styles alone
closeProjectModalKeepingLock ==
    [modalVisible |-> FALSE, bodyStyle |-> bodyStyle,
     scrollY |-> SavedPosition(savedScrollY)]

\* closeProjectModal(): the page it leaves
closeProjectModal ==
    [modalVisible |-> FALSE, bodyStyle |-> BodyFree,
     scrollY |-> SavedPosition(savedScrollY)]

\* the keydown listener of initModal
OnKeydown(key) ==
    IF key = "Escape" /\ modalVisible THEN closeProjectModal ELSE Page

\* the click listener of initModal
OnClick(targetId) ==
    IF targetId = "project-modal" THEN closeProjectModal ELSE Page

\* code of the page may call the modal when no continuation is waiting, or
\* while the task that made a continuation wait is still its own
MayCall == microtasks = <<>> \/ userCode

\* the ghost of the call whose getProjectImages has just returned
Probed(call) == [projectId |-> call.projectId, images |-> call.images]

\* openProjectModal(projectId) up to the await
OpenStart(o, projectId) ==
    /\ MayCall
    /\ opens[o].pc = "idle"
    /\ LET call == GetImagesStart(projectId)
       IN  /\ opens' = [opens EXCEPT ![o] = call]
           /\ microtasks' = IF call.pc = "ready" THEN Append(microtasks, o)
                            ELSE microtasks
           /\ lastProbed' = IF call.pc = "ready" THEN Probed(call)
                            ELSE lastProbed
    /\ userCode' = (microtasks' # <<>>)
    /\ gallery' = GalleryLoading
    /\ UNCHANGED <<imageSets, modalVisible, bodyStyle, scrollY, savedScrollY,
                   beforeOpen>>
    /\ UNCHANGED <<apiVars, debounceVars>>

\* the HEAD request of a call answers, getProjectImages runs to its next
\* await or returns
CheckSettle(o, response) ==
    /\ microtasks = <<>>
    /\ opens[o].pc = "probing"
    /\ response \in HeadResponses(ImageExists(opens[o].folder, opens[o].index))
    /\ LET call == GetImagesAfterCheck(opens[o], checkImageExists(response))
       IN  /\ opens' = [opens EXCEPT ![o] = call]
           /\ microtasks' = IF call.pc = "ready" THEN <<o>> ELSE microtasks
           /\ lastProbed' = IF call.pc = "ready" THEN Probed(call)
                            ELSE lastProbed
    /\ userCode' = FALSE
    /\ UNCHANGED <<imageSets, gallery, modalVisible, bodyStyle, scrollY,
                   savedScrollY, beforeOpen>>
    /\ UNCHANGED <<apiVars, debounceVars>>

\* openProjectModal after the await: render, show, save the position, lock.
\* A body with position fixed leaves the window nothing to scroll
OpenFinish(o) ==
    /\ microtasks # <<>>
    /\ Head(microtasks) = o
    /\ gallery' = RenderGallery(gallery, opens[o].images)
    /\ modalVisible' = TRUE
    /\ savedScrollY' = StrV(DigitsOf(scrollY))
    /\ bodyStyle' = BodyFixed(scrollY)
    /\ scrollY' = 0
    /\ beforeOpen' = IF modalVisible THEN beforeOpen ELSE scrollY
    /\ opens' = [opens EXCEPT ![o] = NoOpen]
    /\ microtasks' = Tail(microtasks)
    /\ userCode' = FALSE
    /\ UNCHANGED <<imageSets, lastProbed>>
    /\ UNCHANGED <<apiVars, debounceVars>>

\* closeProjectModal() called by code of the page
CloseCall ==
    /\ MayCall
    /\ SetPage(closeProjectModal)
    /\ UNCHANGED <<imageSets, opens, microtasks, userCode, gallery,
                   savedScrollY, beforeOpen, lastProbed>>
    /\ UNCHANGED <<apiVars, debounceVars>>

\* a key is pressed
KeyDown(key) ==
    /\ microtasks = <<>>
    /\ SetPage(OnKeydown(key))
    /\ UNCHANGED <<imageSets, opens, microtasks, userCode, gallery,
                   savedScrollY, beforeOpen, lastProbed>>
    /\ UNCHANGED <<apiVars, debounceVars>>

\* a click inside the modal, which takes clicks only while it is shown
Click(targetId) ==
    /\ microtasks = <<>>
    /\ modalVisible
    /\ SetPage(OnClick(targetId))
    /\ UNCHANGED <<imageSets, opens, microtasks, userCode, gallery,
                   savedScrollY, beforeOpen, lastProbed>>
    /\ UNCHANGED <<apiVars, debounceVars>>

\* the user scrolls the page, which a fixed body does not allow
UserScroll(y) ==
    /\ microtasks = <<>>
    /\ bodyStyle.position # SFixed
    /\ y # scrollY
    /\ scrollY' = y
    /\ UNCHANGED <<imageSets, opens, microtasks, userCode, gallery,
                   modalVisible, bodyStyle, savedScrollY, beforeOpen,
                   lastProbed>>
    /\ UNCHANGED <<apiVars, debounceVars>>

InitModal ==
    /\ site = CHOOSE s \in Sites : TRUE
    /\ cachedProjects = NULL
    /\ cachedLinks = NULL
    /\ calls = [c \in Slots |-> Idle]
    /\ settled = NoCall
    /\ fetchCount = [f \in Folders |-> 0]
    /\ linkFetches = 0
    /\ firstRef = 0
    /\ firstLinkRef = 0
    /\ firstFailed = {}
    /\ parseResult = NULL
    /\ loadResult = NULL
    /\ \E existing \in SUBSET (1..MaxImage) :
            imageSets = [f \in Folders |-> existing]
    /\ opens = [o \in OpenSlots |-> NoOpen]
    /\ microtasks = <<>>
    /\ userCode = FALSE
    /\ gallery = GalleryEmpty
    /\ modalVisible = FALSE
    /\ bodyStyle = BodyFree
    /\ scrollY \in 0..MaxScroll
    /\ savedScrollY = UNDEFINED
    /\ beforeOpen = 0
    /\ lastProbed = NULL
    /\ DebounceIdle

NextModal ==
    \/ \E o \in OpenSlots, projectId \in ProjectIds : OpenStart(o, projectId)
    \/ \E o \in OpenSlots, response \in {"ok", "notok", "reject"} :
            CheckSettle(o, response)
    \/ \E o \in OpenSlots : OpenFinish(o)
    \/ CloseCall
    \/ \E key \in {"Escape", "Enter"} : KeyDown(key)
    \/ \E targetId \in {"project-modal", "modal-gallery"} : Click(targetId)
    \/ \E y \in 0..MaxScroll : UserScroll(y)

SpecModal == InitModal /\ [][NextModal]_vars

\* -------------------------------------------------------------------------
\* utils.js: debounce(func, wait), one wrapper and the timer it holds
\* -------------------------------------------------------------------------
\* the delay passed to debounce, in clock ticks
wait == 2

\* the clock stops here
MaxTime == 5

\* the wrapper is called at most this often
MaxCalls == 3

\* the argument lists the wrapper is called with
ArgLists == {<<1>>, <<2>>}

\* the calls of the wrapper in the history
CallsSoFar == {i \in DOMAIN history : history[i].kind = "call"}

\* setTimeout(later, wait): the timer is due wait ticks from now and holds
\* the arguments later closes over
SetTimeout(args) == [due |-> clock + wait, args |-> args]

\* a wrapper that leaves a pending timer alone and sets one only when none
\* is pending
CallKeepingTimer(args) ==
    /\ Cardinality(CallsSoFar) < MaxCalls
    /\ timeout' = IF timeout = NULL THEN SetTimeout(args) ELSE timeout
    /\ history' = Append(history,
                          [kind |-> "call", at |-> clock, args |-> args])
    /\ UNCHANGED clock
    /\ UNCHANGED <<apiVars, modalVars>>

\* executedFunction(...args): clearTimeout(timeout), then
\* timeout = setTimeout(later, wait)
CallDebounced(args) ==
    /\ Cardinality(CallsSoFar) < MaxCalls
    /\ timeout' = SetTimeout(args)
    /\ history' = Append(history,
                          [kind |-> "call", at |-> clock, args |-> args])
    /\ UNCHANGED clock
    /\ UNCHANGED <<apiVars, modalVars>>

\* later(): the pending timer fires, not before it is due and possibly
\* after; clearTimeout(timeout) then finds nothing pending, func(...args)
TimerFire ==
    /\ timeout # NULL
    /\ clock >= timeout.due
    /\ timeout' = NULL
    /\ history' = Append(history,
                          [kind |-> "run", at |-> clock, args |-> timeout.args])
    /\ UNCHANGED clock
    /\ UNCHANGED <<apiVars, modalVars>>

\* time passes
Tick ==
    /\ clock < MaxTime
    /\ clock' = clock + 1
    /\ UNCHANGED <<timeout, history>>
    /\ UNCHANGED <<apiVars, modalVars>>

InitDebounce ==
    /\ site = CHOOSE s \in Sites : TRUE
    /\ cachedProjects = NULL
    /\ cachedLinks = NULL
    /\ calls = [c \in Slots |-> Idle]
    /\ settled = NoCall
    /\ fetchCount = [f \in Folders |-> 0]
    /\ linkFetches = 0
    /\ firstRef = 0
    /\ firstLinkRef = 0
    /\ firstFailed = {}
    /\ parseResult = NULL
    /\ loadResult = NULL
    /\ ModalIdle
    /\ DebounceIdle

NextDebounce ==
    \/ \E args \in ArgLists : CallDebounced(args)
    \/ TimerFire
    \/ Tick

SpecDebounce == InitDebounce /\ [][NextDebounce]_vars

\* -------------------------------------------------------------------------
\* Claims
\* -------------------------------------------------------------------------
Building == {c \in Slots : calls[c].pc = "building"}

\* the calls whose loadProjects() ran a build that has settled
Built == {c \in Slots : calls[c].pc = "awaiting" /\ calls[c].n # 0}

\* C1: at most one catalog build is in flight at any time: a caller that
\* arrives while a build has started and not settled starts no loader calls.
C1_AtMostOneBuildInFlight == Cardinality(Building) <= 1

\* C2: at most one fetch of project.md is issued for each folder identifier
\* during the lifetime of the page.
C2_OneFetchPerFolder == \A f \in Folders : fetchCount[f] <= 1

\* C3: once a call of loadProjects has resolved, every call of loadProjects
\* made afterwards resolves to the very catalog object the first one returned
\* and issues no fetch.
C3_LaterCallsGetFirstCatalog ==
    (settled.op \in CatalogOps /\ settled.after)
        => /\ settled.data.t = "catalog"
           /\ settled.data.ref = firstRef
           /\ settled.n = 0

\* the folders whose load succeeded, in the order of getProjectFolders
Succeeded(loads) ==
    LET ok == {f \in Folders : loads[f].status = "resolved" /\ loads[f].value # NULL}
    IN  CHOOSE s \in [1..Cardinality(ok) -> ok] :
            \A i, j \in 1..Cardinality(ok) : i < j => s[i] < s[j]

\* C4: the catalog of a build holds exactly one record for each folder whose
\* load succeeded and none for the others, in the order of getProjectFolders.
C4_CatalogIsSuccessfulLoadsInOrder ==
    \A c \in Built :
        LET projects == calls[c].inner.value.projects
            ok == Succeeded(calls[c].loads)
        IN  /\ calls[c].inner.status = "resolved"
            /\ Len(projects) = Len(ok)
            /\ \A i \in 1..Len(ok) :
                /\ projects[i] = calls[c].loads[ok[i]].value
                /\ projects[i].thumbnail =
                       ProjectsDir \o getProjectFolders[ok[i]] \o ThumbnailName

\* a build in which the first folder failed and the two others loaded
C4_Witness ==
    \E c \in Built :
        /\ calls[c].loads[1].value = NULL
        /\ calls[c].loads[2].value # NULL
        /\ calls[c].loads[3].value # NULL
        /\ Len(calls[c].inner.value.projects) = 2

AllFailed(loads) == \A f \in Folders : loads[f].value = NULL

\* C5: when the load of every folder fails, loadProjects resolves, to a
\* catalog whose projects are the empty sequence.
C5_AllFailedGivesEmptyCatalog ==
    \A c \in Built :
        AllFailed(calls[c].loads)
            => /\ calls[c].inner.status = "resolved"
               /\ calls[c].inner.value.t = "catalog"
               /\ calls[c].inner.value.projects = <<>>

\* a build all of whose loads failed has settled
C5_Witness ==
    \E c \in Built : AllFailed(calls[c].loads) /\ calls[c].inner.status = "resolved"

\* C6: loadProjectFromMarkdown resolves to a project record or to null and
\* never rejects; it resolves to null whenever the fetch did not succeed.
C6_LoaderNeverRejects ==
    settled.op = "loadProjectFromMarkdown"
        => /\ settled.status = "resolved"
           /\ settled.result.t \in {"null", "project"}
           /\ settled.outcome \in {"notok", "reject", "textreject"}
                  => settled.result = NULL
           /\ settled.outcome = "text" => settled.result.t = "project"

\* a loader call has settled after reading the response text rejected
C6_Witness ==
    /\ settled.op = "loadProjectFromMarkdown"
    /\ settled.outcome = "textreject"
    /\ settled.result = NULL

\* C7: loadProjects, getProjectById, filterProjects, getFeaturedProjects and
\* loadLinks resolve to a value of their kind and never reject.
C7_ApiNeverRejects ==
    settled.op \in CatalogOps \cup {"loadLinks"}
        => /\ settled.status = "resolved"
           /\ settled.op = "loadProjects" => settled.result.t = "catalog"
           /\ settled.op = "getProjectById" => settled.result.t \in {"null", "project"}
           /\ settled.op \in {"filterProjects", "getFeaturedProjects"}
                  => \A i \in 1..Len(settled.result) : settled.result[i].t = "project"
           /\ settled.op = "loadLinks" => settled.result.t = "links"

\* a query has settled on the build it started, in which every load failed
C7_Witness ==
    /\ settled.op = "getProjectById"
    /\ settled.n # 0
    /\ AllFailed(settled.loads)
    /\ settled.status = "resolved"

\* C8: the link resource is fetched at most once in the lifetime of the page.
C8_LinksFetchedOnce == linkFetches <= 1

\* C9: when the fetch of the link resource fails (not ok, rejected, or body
\* not parseable), loadLinks resolves to {social: {}, metadata: {}}.
C9_FailedLinksGiveEmptyDocument ==
    (settled.op = "loadLinks" /\ settled.outcome \in {"notok", "reject", "jsonreject"})
        => /\ settled.status = "resolved"
           /\ settled.result.t = "links"
           /\ settled.result.keys = {"social", "metadata"}
           /\ settled.result.social = {}

\* a loadLinks call has settled after the body did not parse
C9_Witness ==
    /\ settled.op = "loadLinks"
    /\ settled.outcome = "jsonreject"
    /\ settled.status = "resolved"

\* two characters that are the two cases of one letter
CasePair(x, y) ==
    \E k \in 1..Len(Uppers) : {x, y} = {Uppers[k], Lowers[k]}

\* two strings that are equal up to the case of their letters
EqualIgnoringCase(a, b) ==
    /\ Len(a) = Len(b)
    /\ \A i \in 1..Len(a) : a[i] = b[i] \/ CasePair(a[i], b[i])

\* the records of a catalog that carry a tag equal to tag ignoring case
TaggedIgnoringCase(data, tag) ==
    LET Tagged(project) ==
            \E i \in 1..Len(project.tags) : EqualIgnoringCase(project.tags[i], tag)
    IN  SelectSeq(data.projects, Tagged)

\* C10: filterProjects returns the records one of whose tags equals the
\* argument ignoring case, so two arguments that differ only in the case of
\* their letters give the same sequence.
C10_FilterIgnoresCase ==
    (settled.op = "filterProjects" /\ settled.status = "resolved" /\ Truthy(settled.arg))
        => /\ settled.result = TaggedIgnoringCase(settled.data, settled.arg.v)
           /\ \A other \in TagArgs :
                (Truthy(other) /\ EqualIgnoringCase(other.v, settled.arg.v))
                    => filterProjectsResult(settled.data, other) = settled.result

\* filterProjects("Ui/Ux") has returned the record tagged UI/UX and the one
\* tagged ui/ux
C10_Witness ==
    /\ settled.op = "filterProjects"
    /\ settled.arg = StrV(SuiMixed)
    /\ Len(settled.result) = 2
    /\ settled.result[1].tags[1] = SUi
    /\ settled.result[2].tags[1] = SuiLower

\* C11: with an empty or absent tag filterProjects returns the whole sequence
\* of the catalog, in catalog order.
C11_EmptyTagGivesWholeCatalog ==
    (settled.op = "filterProjects" /\ settled.arg \in {StrV(<<>>), UNDEFINED})
        => /\ settled.status = "resolved"
           /\ settled.result = settled.data.projects

\* filterProjects() without argument has returned a catalog of three records
\* of which only two carry a tag list
C11_Witness ==
    /\ settled.op = "filterProjects"
    /\ settled.arg = UNDEFINED
    /\ Len(settled.result) = 3
    /\ settled.result[2].tags = <<>>

\* C12: getProjectById(id) resolves to the first record in catalog order
\* whose identifier equals id, and to null when the catalog has none.
C12_ByIdGivesFirstMatchOrNull ==
    settled.op = "getProjectById"
        => LET projects == settled.data.projects
               r == settled.result
           IN  /\ settled.status = "resolved"
               /\ r = NULL => \A i \in 1..Len(projects) : projects[i].id # settled.arg
               /\ r # NULL =>
                    \E i \in 1..Len(projects) :
                        /\ r = projects[i]
                        /\ r.id = settled.arg
                        /\ \A j \in 1..(i - 1) : projects[j].id # settled.arg

\* getProjectById("demo") on a catalog with two records of that identifier
\* has returned the one of the first folder
C12_Witness ==
    /\ settled.op = "getProjectById"
    /\ settled.arg = StrV(SDemo)
    /\ Len(settled.data.projects) = 3
    /\ settled.data.projects[3].id = StrV(SDemo)
    /\ settled.result # NULL
    /\ settled.result.thumbnail = ProjectsDir \o Adbison \o ThumbnailName

\* the k-th smallest element of a finite set of numbers
Nth(S, k) == CHOOSE x \in S : Cardinality({y \in S : y < x}) = k - 1

\* C13: getFeaturedProjects resolves to the records of the catalog that are
\* marked featured, all of them and only them, in catalog order.
C13_FeaturedOnlyInOrder ==
    settled.op = "getFeaturedProjects"
        => LET projects == settled.data.projects
               marked == {i \in 1..Len(projects) : projects[i].featured = BoolV(TRUE)}
           IN  /\ settled.status = "resolved"
               /\ Len(settled.result) = Cardinality(marked)
               /\ \A k \in 1..Len(settled.result) :
                    settled.result[k] = projects[Nth(marked, k)]

\* getFeaturedProjects has returned the first and the third record of a
\* catalog whose second record is not featured
C13_Witness ==
    /\ settled.op = "getFeaturedProjects"
    /\ Len(settled.data.projects) = 3
    /\ settled.data.projects[2].featured = BoolV(FALSE)
    /\ Len(settled.result) = 2
    /\ settled.result[2] = settled.data.projects[3]

\* the lines of a text
LinesOf(content) == Split(content, "\n")

\* a line that holds the delimiter and nothing else but blanks after it
IsDelimiterLine(line) ==
    /\ Len(line) >= 3
    /\ SubSeq(line, 1, 3) = SDelimiter
    /\ \A i \in 4..Len(line) : IsSpace(line[i])

\* C14: parseFrontmatter returns a result for every text, and for a text that
\* does not begin with a delimiter line the result is the empty mapping with
\* the text itself, unchanged, as body.
C14_NoDelimiterGivesEmptyMappingAndInput ==
    parseResult # NULL
        => /\ DOMAIN parseResult = {"metadata", "body"}
           /\ ~IsDelimiterLine(LinesOf(Content)[1])
                => parseResult = [metadata |-> <<>>, body |-> Content]

\* a text of five lines whose first line is " b" and whose second and fourth
\* lines are delimiters has been parsed
C14_Witness ==
    /\ parseResult # NULL
    /\ Len(LinesOf(Content)) = 5
    /\ LinesOf(Content)[1] = <<" ","b">>
    /\ LinesOf(Content)[2] = SDelimiter
    /\ LinesOf(Content)[4] = SDelimiter
    /\ parseResult.body = Content

\* the lines after the first that can close the frontmatter: delimiter lines
\* that a newline follows
Closing(lines) == {i \in 3..(Len(lines) - 1) : IsDelimiterLine(lines[i])}

\* the text has a delimiter line, a metadata section that is not blank
\* throughout, and a delimiter line with a newline after it
HasSection(lines) ==
    /\ IsDelimiterLine(lines[1])
    /\ Closing(lines) # {}
    /\ \E i \in 2..(SetMin(Closing(lines)) - 1) : Trim(lines[i]) # <<>>

\* the lines of the metadata section
Section(lines) == SubSeq(lines, 2, SetMin(Closing(lines)) - 1)

FirstColon(line) == SetMin({i \in 1..Len(line) : line[i] = ":"})

\* a line that is not blank, not a comment and has a colon
Contributes(line) ==
    /\ Trim(line) # <<>>
    /\ Trim(line)[1] # "#"
    /\ \E i \in 1..Len(line) : line[i] = ":"

KeyOf(line) == Trim(SubSeq(line, 1, FirstColon(line) - 1))

RawOf(line) == Trim(SubSeq(line, FirstColon(line) + 1, Len(line)))

\* the lines of a section whose entry is not overwritten by a later line
Effective(section) ==
    {i \in 1..Len(section) :
        /\ Contributes(section[i])
        /\ \A j \in (i + 1)..Len(section) :
                Contributes(section[j]) => KeyOf(section[j]) # KeyOf(section[i])}

S2025 == <<"2","0","2","5">>

SUiWebApp == <<"U","I","/","U","X",","," ","W","e","b"," ","A","p","p">>

SWebApp == <<"W","e","b"," ","A","p","p">>

\* C15: the raw value of an entry is coerced in a fixed order: "true" and
\* "false" become booleans; otherwise a non-empty numeric literal becomes a
\* number; otherwise a value with a comma becomes the list of its trimmed
\* parts; otherwise the string is kept.  "true" gives true, "2025" gives
\* 2025 and "UI/UX, Web App" gives ["UI/UX", "Web App"].
C15_CoercionInFixedOrder ==
    (parseResult # NULL /\ HasSection(LinesOf(Content)))
        => \A i \in Effective(Section(LinesOf(Content))) :
            LET line == Section(LinesOf(Content))[i]
                raw == RawOf(line)
                value == Get(parseResult.metadata, KeyOf(line))
                isBoolean == raw \in {STrue, SFalse}
                isNumber == ~isBoolean /\ raw # <<>> /\ IsNumeric(raw)
                isList == ~isBoolean /\ ~isNumber /\ Includes(raw, ",")
            IN  /\ raw = STrue => value = BoolV(TRUE)
                /\ raw = SFalse => value = BoolV(FALSE)
                /\ isNumber => value = NumV(ToNumber(raw))
                /\ isList =>
                     /\ value.t = "list"
                     /\ Len(value.v) = Len(Split(raw, ","))
                     /\ \A k \in 1..Len(value.v) :
                            value.v[k] = Trim(Split(raw, ",")[k])
                /\ (~isBoolean /\ ~isNumber /\ ~isList) => value = StrV(raw)
                /\ raw = S2025 => value = NumV(2025)
                /\ raw = SUiWebApp => value = ListV(<<SUi, SWebApp>>)

\* the head of the safetyfirst document has been parsed: its year is the
\* number 2025, its tags the list ["UI/UX", "Web App"], its flag true
C15_Witness ==
    /\ parseResult # NULL
    /\ Content = DocSafety
    /\ Get(parseResult.metadata, KYear) = NumV(2025)
    /\ Get(parseResult.metadata, KTags) = ListV(<<SUi, SWebApp>>)
    /\ Get(parseResult.metadata, KFeatured) = BoolV(TRUE)

\* C16: in the metadata section blank lines, comment lines and lines without
\* colon are skipped; every other line gives the entry whose key is the
\* trimmed text before its first colon and whose value comes from the trimmed
\* text after it.  A later line with the same key replaces the entry.
C16_LinesBecomeEntries ==
    (parseResult # NULL /\ HasSection(LinesOf(Content)))
        => LET section == Section(LinesOf(Content))
               metadata == parseResult.metadata
           IN  /\ {metadata[e][1] : e \in 1..Len(metadata)}
                    = {KeyOf(section[i]) : i \in Effective(section)}
               /\ Len(metadata) = Cardinality(Effective(section))
               /\ \A i \in Effective(section) :
                    Get(metadata, KeyOf(section[i])) = CoerceValue(RawOf(section[i]))

\* a section with the lines " id : x " and "link: http://a.b" has been parsed
\* into the entries id = "x" and link = "http://a.b"
C16_Witness ==
    /\ parseResult # NULL
    /\ HasSection(LinesOf(Content))
    /\ Section(LinesOf(Content)) = <<<<" ","i","d"," ",":"," ","x"," ">>,
                                     <<"l","i","n","k",":"," ","h","t","t","p",":","/","/","a",".","b">>>>
    /\ parseResult.metadata = <<<<KId, StrV(<<"x">>)>>,
                                <<KLink, StrV(<<"h","t","t","p",":","/","/","a",".","b">>)>>>>

\* the elements of a list, separated by a comma and a blank as the
\* documents write them
RECURSIVE ListText(_)
ListText(elements) ==
    IF Len(elements) = 0 THEN <<>>
    ELSE IF Len(elements) = 1 THEN elements[1]
    ELSE elements[1] \o <<",", " ">> \o ListText(Tail(elements))

\* the text of a metadata value on a 'key: value' line
ValueText(value) ==
    CASE value.t = "bool" -> IF value.v THEN STrue ELSE SFalse
      [] value.t = "num" -> DigitsOf(value.v)
      [] value.t = "list" -> ListText(value.v)
      [] OTHER -> value.v

RECURSIVE EntryLinesText(_)
EntryLinesText(metadata) ==
    IF Len(metadata) = 0 THEN <<>>
    ELSE metadata[1][1] \o <<":", " ">> \o ValueText(metadata[1][2]) \o <<"\n">>
            \o EntryLinesText(Tail(metadata))

\* the delimited format: delimiter line, one 'key: value' line per entry,
\* delimiter line, body
Serialize(metadata, body) ==
    SDelimiter \o <<"\n">> \o EntryLinesText(metadata)
        \o SDelimiter \o <<"\n">> \o body

RoundTripKeys == {KId, KTags, <<"a">>}

RoundTripValues ==
    {NumV(1), NumV(7), StrV(SDemo), StrV(<<"7">>), BoolV(TRUE),
     ListV(<<<<"A">>, <<"B">>>>), ListV(<<<<"A">>>>)}

RoundTripEntries == RoundTripKeys \X RoundTripValues

\* the mappings of at most two entries with different keys
RoundTripMappings ==
    {<<>>} \cup {<<e>> : e \in RoundTripEntries}
        \cup {m \in {<<e1, e2>> : e1 \in RoundTripEntries,
                                  e2 \in RoundTripEntries} :
                m[1][1] # m[2][1]}

RoundTripBodies == {<<>>, <<" ","b">>, SBodyText}

\* a mapping and a body with the text they are serialized to
RoundTripCases ==
    {[metadata |-> m, body |-> b, text |-> Serialize(m, b)] :
        m \in RoundTripMappings, b \in RoundTripBodies}

\* equal, or the original is the string that the parsed number or boolean
\* is written as
SameModuloCoercion(original, value) ==
    \/ value = original
    \/ /\ original.t = "str"
       /\ value.t \in {"num", "bool"}
       /\ ValueText(value) = original.v

\* C17: a mapping of string, number, boolean and list values and a body,
\* written in the delimited format and parsed, come back as the same
\* mapping (up to the coercion of numeric and boolean strings) and the
\* same body.
C17_RoundTrip ==
    parseResult # NULL
        => \A c \in RoundTripCases :
            c.text = Content
                => /\ parseResult.body = c.body
                   /\ Len(parseResult.metadata) = Len(c.metadata)
                   /\ \A e \in 1..Len(c.metadata) :
                        /\ parseResult.metadata[e][1] = c.metadata[e][1]
                        /\ SameModuloCoercion(c.metadata[e][2],
                                              parseResult.metadata[e][2])

\* the value of a key of the metadata if it has a value that counts as
\* true, or else the default
MetadataOr(metadata, key, default) ==
    IF /\ \E e \in 1..Len(metadata) : metadata[e][1] = key
       /\ Get(metadata, key) \notin {BoolV(FALSE), NumV(0), StrV(<<>>)}
    THEN Get(metadata, key)
    ELSE default

SDemoProject == <<"D","e","m","o"," ","P","r","o","j","e","c","t">>

\* C18: the record of a successful load takes id, title, year, link and
\* featured from the parsed metadata or else the folder name, 'Untitled
\* Project', the current year, '' and false; tags is the metadata tag list
\* or else empty; description is the parsed body; the thumbnail is
\* '{folder}/1.webp' under the projects directory; images is empty.  The
\* demo document gives id "demo", title "Demo Project", year 2024, tags
\* ["A", "B"], featured true and description "Body text.".
C18_RecordFieldsAndDefaults ==
    loadResult # NULL
        => /\ \E f \in Folders :
                LET folder == getProjectFolders[f]
                    parsed == parseFrontmatter(site[f])
                    metadata == parsed.metadata
                IN  /\ loadResult.id = MetadataOr(metadata, KId, StrV(folder))
                    /\ loadResult.title
                        = MetadataOr(metadata, KTitle, StrV(UntitledProject))
                    /\ loadResult.year
                        = MetadataOr(metadata, KYear, NumV(CurrentYear))
                    /\ loadResult.link = MetadataOr(metadata, KLink, StrV(<<>>))
                    /\ loadResult.featured
                        = MetadataOr(metadata, KFeatured, BoolV(FALSE))
                    /\ \/ /\ Get(metadata, KTags).t = "list"
                          /\ loadResult.tags = Get(metadata, KTags).v
                       \/ /\ Get(metadata, KTags).t # "list"
                          /\ loadResult.tags = <<>>
                    /\ loadResult.description = parsed.body
                    /\ loadResult.thumbnail
                        = ProjectsDir \o folder \o <<"/","1",".","w","e","b","p">>
                    /\ loadResult.images = <<>>
           /\ Content = DocDemo
                => /\ loadResult.id = StrV(SDemo)
                   /\ loadResult.title = StrV(SDemoProject)
                   /\ loadResult.year = NumV(2024)
                   /\ loadResult.tags = <<<<"A">>, <<"B">>>>
                   /\ loadResult.featured = BoolV(TRUE)
                   /\ loadResult.description = SBodyText

\* the demo document has been loaded from the folder adbison: the record has
\* the identifier of the metadata and the thumbnail of the folder
C18_Witness ==
    /\ loadResult # NULL
    /\ Content = DocDemo
    /\ loadResult.id = StrV(SDemo)
    /\ loadResult.thumbnail = ProjectsDir \o Adbison \o ThumbnailName

\* C19: every record of loadProjectFromMarkdown is well typed: id, title and
\* link are strings, year is an integer, featured is a boolean, tags is a
\* sequence of strings.
C19_RecordsWellTyped ==
    loadResult # NULL
        => /\ loadResult.id.t = "str"
           /\ loadResult.title.t = "str"
           /\ loadResult.link.t = "str"
           /\ loadResult.year.t = "num"
           /\ loadResult.year.v \in Int
           /\ loadResult.featured.t = "bool"
           /\ \A k \in 1..Len(loadResult.tags) :
                \A i \in 1..Len(loadResult.tags[k]) :
                    loadResult.tags[k][i] \in STRING

\* the lines of a text from line a on, as one text
RestFrom(lines, a) ==
    IF a > Len(lines) THEN <<>> ELSE Join(SubSeq(lines, a, Len(lines)), "\n")

\* the lines after the first that hold only the delimiter
Delimiters(lines) == {i \in 2..Len(lines) : lines[i] = SDelimiter}

\* C20: a text made of a line '---', a metadata section of any number of
\* lines (none too), a line '---' and the remaining text (empty too, and
\* with or without a newline after the closing line) is parsed into the
\* entries of the section and, as body, the remaining text (compared here
\* up to white space at its ends).
C20_DelimitedTextIsRecognised ==
    LET lines == LinesOf(Content)
        close == SetMin(Delimiters(lines))
    IN  (parseResult # NULL /\ lines[1] = SDelimiter /\ Delimiters(lines) # {})
            => /\ parseResult.metadata
                    = ParseLines(SubSeq(lines, 2, close - 1), <<>>)
               /\ parseResult.body = Trim(RestFrom(lines, close + 1))

\* the loader calls of call c that have settled
SettledLoads(c) ==
    {f \in 1..Len(calls[c].loads) : calls[c].loads[f].status # "pending"}

\* C21: the fetches of a build are issued together, in the step in which the
\* build starts: a step that issues the fetch of one folder issues the fetch
\* of every folder, for a call that had no loader call before, so that no
\* loader call of a build starts after another one of it has settled.
C21_LoadersIssuedBeforeAnyIsAwaited ==
    [][\A f \in Folders :
        fetchCount'[f] # fetchCount[f]
            => /\ \A g \in Folders : fetchCount'[g] = fetchCount[g] + 1
               /\ \A c \in Slots : SettledLoads(c)' \subseteq SettledLoads(c)
               /\ \E c \in Slots :
                    /\ calls[c].loads = <<>>
                    /\ DOMAIN calls'[c].loads = Folders
                    /\ \A g \in Folders : calls'[c].loads[g].at = "fetching"]_vars

\* a build in which the loader call of the first folder has settled while
\* the fetches of the other two are still out
C21_Witness ==
    \E c \in Slots :
        /\ calls[c].pc = "building"
        /\ calls[c].loads[1].at = "done"
        /\ calls[c].loads[2].at = "fetching"
        /\ calls[c].loads[3].at = "fetching"
        /\ \A f \in Folders : fetchCount[f] = 1

\* the functions that only read the catalog or one project.md
Readers ==
    {"loadProjectFromMarkdown", "getProjectById", "filterProjects",
     "getFeaturedProjects"}

\* C22: the catalog cache is written only by the build inside loadProjects.
\* A step in which loadProjectFromMarkdown, getProjectById, filterProjects
\* or getFeaturedProjects settles leaves both caches as they were, a step of
\* loadLinks leaves the cached catalog as it was, and the cached catalog
\* changes only when a build ends, to the catalog that build returns.
C22_OnlyTheBuildWritesTheCatalogCache ==
    [][/\ (settled' # settled /\ settled'.op \in Readers)
            => /\ cachedProjects' = cachedProjects
               /\ cachedLinks' = cachedLinks
       /\ (settled'.op = "loadLinks" \/ linkFetches' # linkFetches
                \/ cachedLinks' # cachedLinks)
            => cachedProjects' = cachedProjects
       /\ cachedProjects' # cachedProjects
            => \E c \in Slots :
                /\ calls[c].pc = "building"
                /\ calls'[c].pc = "awaiting"
                /\ calls'[c].inner = Resolved(cachedProjects')]_vars

\* filterProjects has settled while the catalog and the link document are
\* both cached
C22_Witness ==
    /\ settled.op = "filterProjects"
    /\ cachedProjects # NULL
    /\ cachedLinks # NULL
    /\ settled.data = cachedProjects

\* the records in what a call of the catalog resolved to
ResultRecords(call) ==
    CASE call.op = "loadProjects" ->
            {call.result.projects[i] : i \in 1..Len(call.result.projects)}
      [] call.op = "getProjectById" ->
            IF call.result = NULL THEN {} ELSE {call.result}
      [] OTHER -> {call.result[i] : i \in 1..Len(call.result)}

\* C26: failed loads are not retried: a folder whose load failed in the
\* first build that completed has no record in the result of any call of
\* loadProjects, getProjectById, filterProjects or getFeaturedProjects made
\* after that build.
C26_FailedLoadsStayAbsent ==
    (settled.op \in CatalogOps /\ settled.after /\ settled.status = "resolved")
        => \A f \in firstFailed :
            \A record \in ResultRecords(settled) :
                record.thumbnail
                    # ProjectsDir \o getProjectFolders[f] \o ThumbnailName

\* how a call of loadLinks ends when its fetch or the reading of its body
\* fails
LinkFailures == {"notok", "reject", "jsonreject"}

\* a link document as /data/links.json holds it, not the fallback
IsRealLinkDocument(document) ==
    \E b \in LinkBodies : document = LinkDocument(document.ref, b)

\* C27: a failed loadLinks call does not store its fallback document: the
\* step in which it fails leaves the link cache as it was, a call made while
\* the cache is empty issues a new fetch, and a call whose fetch and body
\* are read returns the real link document and leaves it in the cache.
C27_FallbackLinksAreNotCached ==
    [][/\ (settled' # settled /\ settled'.op = "loadLinks"
                /\ settled'.outcome \in LinkFailures)
            => /\ cachedLinks' = cachedLinks
               /\ cachedLinks' # settled'.result
       /\ \A c \in Slots :
            (calls[c].pc = "idle" /\ calls'[c].pc = "lfetch")
                => /\ cachedLinks = NULL
                   /\ linkFetches' = linkFetches + 1
       /\ (settled' # settled /\ settled'.op = "loadLinks"
                /\ cachedLinks = NULL)
            => settled'.outcome # "cached"
       /\ (settled' # settled /\ settled'.op = "loadLinks"
                /\ settled'.outcome = "json")
            => /\ IsRealLinkDocument(settled'.result)
               /\ cachedLinks' = settled'.result]_vars

\* a call made after a failed call has fetched again, read the real link
\* document and left it in the cache
C27_Witness ==
    /\ settled.op = "loadLinks"
    /\ settled.outcome = "json"
    /\ settled.after
    /\ settled.n = 2
    /\ firstLinkRef = 1
    /\ cachedLinks = settled.result
    /\ IsRealLinkDocument(cachedLinks)

\* the raw values of the lines of a section that set the key 'tags' and are
\* not overwritten
TagsRaw(section) ==
    {RawOf(section[i]) : i \in {j \in Effective(section) : KeyOf(section[j]) = KTags}}

\* a catalog that holds one record
CatalogOf(record) == BuildData(<<record>>, 1)

\* C28: a 'tags' value without comma gives a record with an empty tags
\* sequence, which filterProjects with that value as tag does not return; a
\* record has a tag only if its 'tags' value has a comma.
C28_SingleTagGivesNoTags ==
    (loadResult # NULL /\ HasSection(LinesOf(Content)))
        => LET raws == TagsRaw(Section(LinesOf(Content)))
           IN  /\ \A raw \in raws :
                    ~Includes(raw, ",")
                        => /\ loadResult.tags = <<>>
                           /\ raw # <<>>
                                => filterProjectsResult(CatalogOf(loadResult),
                                                        StrV(raw)) = <<>>
               /\ loadResult.tags # <<>>
                    => \E raw \in raws : Includes(raw, ",")

\* a document with the line 'tags: A' has been loaded: the record has no
\* tags and filterProjects('A') does not return it
C28_Witness ==
    /\ loadResult # NULL
    /\ HasSection(LinesOf(Content))
    /\ TagsRaw(Section(LinesOf(Content))) = {<<"A">>}
    /\ loadResult.tags = <<>>
    /\ filterProjectsResult(CatalogOf(loadResult), StrV(<<"A">>)) = <<>>

\* -------------------------------------------------------------------------
\* C23: every step that closes the modal scrolls the window to the position
\* the page had just before the modal became visible, also when a second
\* openProjectModal has completed while the body was locked by the first
\* -------------------------------------------------------------------------
C23_CloseRestoresScrollPosition ==
    [][(modalVisible /\ ~modalVisible') => scrollY' = beforeOpen]_vars

\* -------------------------------------------------------------------------
\* C24: getProjectImages returns, for a project id that is a key of the
\* folder map, the paths of the images 1..k in ascending order, k the length
\* of the longest run of existing images that starts at 1, at most 50; it
\* issues at most 50 existence checks and none after the first missing
\* image; for any other project id it returns the empty list and issues no
\* existence check
\* -------------------------------------------------------------------------
\* the project ids the folder map knows, with the folder of each
KnownFolder(projectId) ==
    CASE projectId = SAdbisonWebsite -> 1
      [] projectId = SInstaforexSearch -> 2
      [] projectId = SSafetyFirstWebapp -> 3
      [] OTHER -> 0

\* the length of the longest run of existing images of folder f from 1
ExistingRun(f) ==
    LET runs == {k \in 0..maxImages : \A i \in 1..k : i \in imageSets[f]}
    IN  CHOOSE k \in runs : \A j \in runs : j <= k

\* the calls whose getProjectImages has returned
Returned == {o \in OpenSlots : opens[o].pc = "ready"}

C24_ImagesAreTheExistingRun ==
    /\ \A o \in OpenSlots : opens[o].checks <= maxImages
    /\ \A o \in Returned :
        LET call == opens[o]
            f == KnownFolder(call.projectId)
        IN  IF f = 0
            THEN call.images = <<>> /\ call.checks = 0
            ELSE /\ call.images =
                        [i \in 1..ExistingRun(f) |->
                            ImagePath(StrV(getProjectFolders[f]), i)]
                 /\ call.checks <= ExistingRun(f) + 1

\* -------------------------------------------------------------------------
\* C29: between callbacks the modal is visible if and only if the body is
\* scroll-locked (position fixed, overflow hidden), for every interleaving
\* of opens, closes, Escape presses and backdrop clicks; an Escape press
\* while the modal is not visible changes nothing
\* -------------------------------------------------------------------------
ScrollLocked == bodyStyle.position = SFixed /\ bodyStyle.overflow = SHidden

C29_VisibleIffScrollLocked ==
    /\ modalVisible <=> ScrollLocked
    /\ ~modalVisible => OnKeydown("Escape") = Page

\* the modal is shown and locked while another call is still probing
C29_Witness ==
    /\ modalVisible
    /\ ScrollLocked
    /\ \E o \in OpenSlots : opens[o].pc = "probing"

\* -------------------------------------------------------------------------
\* C30: when calls of openProjectModal overlap, the gallery never holds
\* images of two projects at once; when no continuation is waiting to run,
\* what it holds is nothing or the images of the call whose image probing
\* finished last, and once every call has settled it holds exactly the
\* images of that call
\* -------------------------------------------------------------------------
\* the path lies in the folder of project f
InFolder(path, f) ==
    LET prefix == AssetsDir \o getProjectFolders[f] \o <<"/">>
    IN  /\ Len(path) > Len(prefix)
        /\ SubSeq(path, 1, Len(prefix)) = prefix

AllSettled == \A o \in OpenSlots : opens[o].pc = "idle"

C30_GalleryHoldsOneProject ==
    /\ \E f \in Folders :
            \A i \in DOMAIN gallery.items : InFolder(gallery.items[i], f)
    /\ (microtasks = <<>> /\ gallery.items # <<>>) =>
            gallery.items = lastProbed.images
    /\ (AllSettled /\ lastProbed # NULL) =>
            gallery = RenderGallery(GalleryEmpty, lastProbed.images)

\* the gallery shows the images of one project while a call for another
\* project, started before they were rendered, has found images of its own
C30_Witness ==
    /\ gallery.kind = "images"
    /\ \E o \in OpenSlots :
            /\ opens[o].pc = "probing"
            /\ opens[o].images # <<>>
            /\ opens[o].projectId # lastProbed.projectId

\* -------------------------------------------------------------------------
\* C25: debounce(func, wait)
\* -------------------------------------------------------------------------
IsCall(i) == history[i].kind = "call"

IsRun(i) == history[i].kind = "run"

\* the most recent call of the wrapper before event i, 0 if there is none
CallBefore(i) ==
    LET before == {j \in 1..(i - 1) : IsCall(j)}
    IN  IF before = {} THEN 0
        ELSE CHOOSE j \in before : \A k \in before : k <= j

\* calls j < k of the wrapper with no call between them
ConsecutiveCalls ==
    {jk \in CallsSoFar \X CallsSoFar : jk[1] < jk[2] /\ CallBefore(jk[2]) = jk[1]}

\* func runs only when wait has elapsed since the most recent call of the
\* wrapper, and with the arguments of that call
RunsAfterQuietWait ==
    \A i \in DOMAIN history :
        IsRun(i) =>
            LET j == CallBefore(i)
            IN  /\ j # 0
                /\ history[i].args = history[j].args
                /\ history[i].at >= history[j].at + wait

\* no call of the wrapper is followed by two executions
AtMostOneRunPerCall ==
    \A i \in DOMAIN history : IsRun(i) => (i > 1 /\ IsCall(i - 1))

\* C25 as stated: func is not executed until wait has elapsed since the most
\* recent call, and every burst of calls less than wait apart leads to
\* exactly one execution, after its last call and with the arguments of
\* that call: a call that comes wait or more after the previous one finds
\* that the earlier burst has led to its execution
C25_OneExecutionPerBurst ==
    /\ RunsAfterQuietWait
    /\ AtMostOneRunPerCall
    /\ \A jk \in ConsecutiveCalls :
            IF history[jk[2]].at - history[jk[1]].at < wait
            THEN jk[2] = jk[1] + 1
            ELSE jk[2] = jk[1] + 2

\* C25 amended: func is not executed until wait has elapsed since the most
\* recent call of the wrapper; of a burst of calls less than wait apart only
\* the last call leads to an execution, with its own arguments and at most
\* once, and it does so unless the wrapper is called again before its timer
\* has fired: until then the timer of the last call stays pending
C25_OneExecutionUnlessCalledAgain ==
    /\ RunsAfterQuietWait
    /\ AtMostOneRunPerCall
    /\ \A jk \in ConsecutiveCalls :
            IF history[jk[2]].at - history[jk[1]].at < wait
            THEN jk[2] = jk[1] + 1
            ELSE jk[2] <= jk[1] + 2
    /\ IF history # <<>> /\ IsCall(Len(history))
       THEN timeout = [due |-> history[Len(history)].at + wait,
                       args |-> history[Len(history)].args]
       ELSE timeout = NULL

\* a burst of two calls with different arguments, then one execution
C25_Witness ==
    \E i \in DOMAIN history :
        /\ i >= 3
        /\ IsRun(i)
        /\ IsCall(i - 1)
        /\ IsCall(i - 2)
        /\ history[i - 1].args # history[i - 2].args
        /\ history[i - 1].at - history[i - 2].at < wait
        /\ history[i - 1].at > history[i - 2].at

====
